---- MODULE Spec2Model ----
(***************************************************************************)
(* A model of the OSTeacher course-generation server: the retry wrapper    *)
(* around model calls (utils/retry_utils.py), the learner-progress         *)
(* aggregation (services/lesson_service.py, crud.py) and the course /      *)
(* lesson generation pipeline (services/course_service.py, crud.py) over   *)
(* the course, lesson and quiz tables.                                      *)
(***************************************************************************)
EXTENDS Integers, Sequences, FiniteSets, TLC

VARIABLES
    courses,    \* courses table: course id -> row
    lessons,    \* lessons table: set of rows
    quizzes,    \* quizzes table: set of rows
    tasks,      \* generation runs: sequence of thread records
    regen,      \* in-flight regenerate_lesson requests
    calls,      \* in-flight update_lesson_user_status requests
    hist,       \* how many requests and repository faults were used so far
    retry,      \* one run of retry_api_call
    agg,        \* one evaluation of the progress aggregation
    finals,     \* in-flight POST /quizzes/courses/{id}/final-quiz requests
    planning,   \* the planning part of the latest course-creation request
    reply,      \* the latest retry_course_generation request and what it returned
    extraction, \* the latest planner answer handed to plan extraction, and the result
    linkrow     \* a lesson-content answer and the lesson row a save path wrote from it

vars == <<courses, lessons, quizzes, tasks, regen, calls, hist, retry, agg, finals, planning,
          reply, extraction, linkrow>>

\* The variables the generation pipeline and the learner's requests never touch.
apart == <<retry, agg, finals, planning, reply, extraction, linkrow>>

None == "None"
NoId == 0          \* "no row id": ids are positive
NoArg == 0 - 1     \* a keyword argument left at its default of None

(***************************************************************************)
(* Bounds of the model.                                                    *)
(***************************************************************************)
MaxRetriesArg == 2     \* largest max_retries a caller passes
MaxAggLessons == 3     \* longest lesson list handed to the aggregation

(***************************************************************************)
(* utils/retry_utils.py                                                    *)
(***************************************************************************)
MAX_RETRIES == 3
RETRY_DELAY == 2
RETRY_BACKOFF_FACTOR == 2
MAX_RETRY_DELAY == 60

connection_indicators ==
    { "connection error", "connection timeout", "timeout", "server disconnected",
      "remote protocol error", "connection reset", "network error",
      "api connection error", "rate limit", "too many requests",
      "service unavailable", "internal server error", "bad gateway",
      "gateway timeout" }

retryable_types ==
    { "connectionerror", "timeout", "apiconnectionerror",
      "httpxremoteprotocolerror", "remoteprotocolerror", "modelproviderror" }

\* Errors an operation raises: the lowered message and the lowered type name.
\* A message here either is one of the indicators or contains none of them.
ErrorSamples ==
    { [msg |-> "timeout",           typ |-> "exception"],
      [msg |-> "rate limit",        typ |-> "exception"],
      [msg |-> "quota exhausted",   typ |-> "modelproviderror"],
      [msg |-> "invalid api key",   typ |-> "valueerror"],
      [msg |-> "content filtered",  typ |-> "exception"] }

is_retryable_error(error) ==
    \/ error.msg \in connection_indicators
    \/ error.typ \in retryable_types

\* `max_retries = max_retries or settings.MAX_RETRIES`
effective_max_retries_plain(max_retries) == max_retries

effective_max_retries(max_retries) ==
    IF max_retries = NoArg \/ max_retries = 0 THEN MAX_RETRIES ELSE max_retries

NoException == [msg |-> "", typ |-> "", call |-> 0]
NoResult == [call |-> 0]
Returned == [msg |-> "", typ |-> "returned"]     \* the outcome of a call that returns

RetryIdle ==
    [pc |-> "idle", arg |-> NoArg, max_retries |-> 0, attempt |-> 0, calls |-> 0,
     sleeps |-> 0, outcomes |-> <<>>, last_exception |-> NoException,
     raised |-> NoException, returned |-> NoResult,
     base_delay |-> NoArg, backoff_factor |-> NoArg, max_delay |-> NoArg, delays |-> <<>>]

RetryArgs == {NoArg} \cup (0 .. MaxRetriesArg)

\* Delays are whole seconds; a slept delay, which carries jitter, is counted in
\* ticks, TicksPerSecond to the second.  random.random() is k/JitterDraws for a k
\* in RandomDraws.
TicksPerSecond == 8
JitterDraws == 4
RandomDraws == 0 .. (JitterDraws - 1)

RECURSIVE Pow(_, _)
Pow(b, n) == IF n = 0 THEN 1 ELSE b * Pow(b, n - 1)

Min(a, b) == IF a <= b THEN a ELSE b
Max(a, b) == IF a >= b THEN a ELSE b

\* `x = x or settings.X`: None and 0 are replaced by the setting.
or_setting(x, setting) == IF x = NoArg \/ x = 0 THEN setting ELSE x

\* calculate_delay up to the cap: min(base_delay * backoff_factor ** attempt, max_delay).
capped_delay(attempt, base_delay, backoff_factor, max_delay) ==
    Min(or_setting(base_delay, RETRY_DELAY)
            * Pow(or_setting(backoff_factor, RETRY_BACKOFF_FACTOR), attempt),
        or_setting(max_delay, MAX_RETRY_DELAY))

\* jitter = delay * 0.25 * (2 * random.random() - 1), in ticks.
jitter(delay, draw) ==
    (delay * TicksPerSecond * (2 * draw - JitterDraws)) \div (4 * JitterDraws)

\* calculate_delay: the capped delay plus jitter, never negative, in ticks.
calculate_delay(attempt, base_delay, backoff_factor, max_delay, draw) ==
    LET delay == capped_delay(attempt, base_delay, backoff_factor, max_delay)
    IN  Max(0, TicksPerSecond * delay + jitter(delay, draw))

\* retry_api_call(func, max_retries = mr, base_delay = bd, backoff_factor = bf,
\* max_delay = md) is entered.
retry_api_call_with(mr, bd, bf, md) ==
    /\ retry.pc = "idle"
    /\ retry' = [RetryIdle EXCEPT !.pc = "call", !.arg = mr,
                                  !.max_retries = effective_max_retries(mr),
                                  !.base_delay = bd, !.backoff_factor = bf,
                                  !.max_delay = md]

\* retry_api_call(func, max_retries = mr) is entered.
retry_api_call(mr) == retry_api_call_with(mr, NoArg, NoArg, NoArg)

\* The exception handed to the caller by the `raise e` of the handler.
raised_first(r, e) == IF r.calls = 0 THEN e ELSE r.last_exception

raised_exception(r, e) == e

\* The handler's two exits: the last attempt, or an error that is not retryable.
gives_up_when_exhausted(attempt, max_retries, err) == attempt >= max_retries

gives_up(attempt, max_retries, err) ==
    \/ attempt >= max_retries
    \/ ~ is_retryable_error(err)

\* One turn of `for attempt in range(max_retries + 1)`: func() returns.
retry_call_returns ==
    /\ retry.pc = "call"
    /\ retry.attempt <= retry.max_retries
    /\ retry' = [retry EXCEPT !.pc = "returned", !.calls = @ + 1,
                              !.outcomes = Append(@, Returned),
                              !.returned = [call |-> retry.calls + 1]]

\* One turn of the loop: func() raises e; draw is what random.random() gives.
retry_call_raises(err, draw) ==
    /\ retry.pc = "call"
    /\ retry.attempt <= retry.max_retries
    /\ LET e == [msg |-> err.msg, typ |-> err.typ, call |-> retry.calls + 1]
           r1 == [retry EXCEPT !.calls = @ + 1,
                               !.outcomes = Append(@, err),
                               !.last_exception = e]
       IN  IF gives_up(retry.attempt, retry.max_retries, err)
           THEN retry' = [r1 EXCEPT !.pc = "raised", !.raised = raised_exception(retry, e)]
           ELSE \* calculate_delay, time.sleep(delay), next attempt
                retry' = [r1 EXCEPT
                    !.sleeps = @ + 1, !.attempt = @ + 1,
                    !.delays = Append(@,
                        [capped |-> capped_delay(retry.attempt, retry.base_delay,
                                                 retry.backoff_factor, retry.max_delay),
                         slept  |-> calculate_delay(retry.attempt, retry.base_delay,
                                                    retry.backoff_factor, retry.max_delay,
                                                    draw)])]

RetryNext ==
    \/ \E mr \in RetryArgs : retry_api_call(mr)
    \/ retry_call_returns
    \/ \E err \in ErrorSamples, draw \in RandomDraws : retry_call_raises(err, draw)

(***************************************************************************)
(* agents/lesson_content_agent.py, agents/course_planner_agent.py          *)
(***************************************************************************)
\* What agent.run hands back when it returns: a response with text, with empty text
\* or with no content at all.
ModelContents == {"content", "", None}

\* A run whose `except Exception` clause is missing: the exception of retry_api_call
\* reaches the caller.
run_agent_with_retry_uncaught(r, content) ==
    IF r.pc = "returned"
    THEN [outcome |-> "returns", content |-> content, error |-> None]
    ELSE [outcome |-> "raises", content |-> None, error |-> r.raised.msg]

\* _run_agent_with_retry once retry_api_call has finished as r: what it returned is
\* passed on (content: the content of that response); what it raised becomes
\* ErrorResponse(str(e)), with content None and error the message.
run_agent_with_retry(r, content) ==
    IF r.pc = "returned"
    THEN [outcome |-> "returns", content |-> content, error |-> None]
    ELSE [outcome |-> "returns", content |-> None, error |-> r.raised.msg]

\* Arguments a caller passes for the delays, in seconds.
BaseDelays == {NoArg, 0, 1, 3}
BackoffFactors == {NoArg, 1, 2}
MaxDelays == {NoArg, 0, 4}

DelayErrors == {e \in ErrorSamples : e.msg \in {"timeout", "invalid api key"}}

DelayNext ==
    \/ \E mr \in RetryArgs, bd \in BaseDelays, bf \in BackoffFactors, md \in MaxDelays :
           retry_api_call_with(mr, bd, bf, md)
    \/ retry_call_returns
    \/ \E err \in DelayErrors, draw \in RandomDraws : retry_call_raises(err, draw)

(***************************************************************************)
(* Progress aggregation: _check_and_update_course_completion_status        *)
(***************************************************************************)
UserStatuses == {"not_started", "in_progress", "completed"}

all_lessons_completed(lessons_statuses) ==
    \A i \in 1 .. Len(lessons_statuses) : lessons_statuses[i] = "completed"

any_lesson_in_progress(lessons_statuses) ==
    \E i \in 1 .. Len(lessons_statuses) : lessons_statuses[i] = "in_progress"

any_lesson_completed(lessons_statuses) ==
    \E i \in 1 .. Len(lessons_statuses) : lessons_statuses[i] = "completed"

new_status_any_started(current_course_user_status, lessons_statuses) ==
    IF lessons_statuses = <<>>
    THEN IF current_course_user_status \in {"completed", "in_progress"} THEN "not_started"
         ELSE IF current_course_user_status = None THEN "not_started"
         ELSE None
    ELSE IF any_lesson_in_progress(lessons_statuses) \/ any_lesson_completed(lessons_statuses)
         THEN "in_progress"
         ELSE IF all_lessons_completed(lessons_statuses) THEN "completed"
         ELSE "not_started"

\* new_course_user_status_value: None when the code leaves it unset.
new_course_user_status_value(current_course_user_status, lessons_statuses) ==
    IF lessons_statuses = <<>>
    THEN IF current_course_user_status \in {"completed", "in_progress"} THEN "not_started"
         ELSE IF current_course_user_status = None THEN "not_started"
         ELSE None
    ELSE IF all_lessons_completed(lessons_statuses) THEN "completed"
         ELSE IF any_lesson_in_progress(lessons_statuses) \/ any_lesson_completed(lessons_statuses)
         THEN "in_progress"
         ELSE "not_started"

writes_whenever_set(new_value, current_course_user_status) == new_value # None

\* `if new_course_user_status_value and new_course_user_status_value != current`
writes_course_user_status(new_value, current_course_user_status) ==
    new_value # None /\ new_value # current_course_user_status

AggIdle == [pc |-> "idle", current |-> None, statuses |-> <<>>, new |-> None,
            written |-> FALSE, stored |-> None]

StatusLists == UNION { [1 .. n -> UserStatuses] : n \in 0 .. MaxAggLessons }

\* The aggregation applied to a stored course status and a list of lesson statuses.
check_and_update(current, statuses) ==
    /\ agg.pc = "idle"
    /\ LET new == new_course_user_status_value(current, statuses)
           w == writes_course_user_status(new, current)
       IN  agg' = [pc |-> "done", current |-> current, statuses |-> statuses,
                   new |-> new, written |-> w,
                   stored |-> IF w THEN new ELSE current]

AggNext ==
    \E current \in UserStatuses \cup {None}, statuses \in StatusLists :
        check_and_update(current, statuses)

(***************************************************************************)
(* Planner output as text, and the extraction of the plan from it          *)
(* (utils/parsers.py, crud.py lines 795-839).                              *)
(*                                                                         *)
(* A text is a sequence of tokens:                                         *)
(*   "F"  a fence ```            "j"  the word json                        *)
(*   "W"  white space            "C"  a control character (0x00-0x1F, 7F)  *)
(*   "{" "}"  braces             "t"  any other prose                      *)
(*   "n"  a JSON value that is not an object, e.g. [1, 2]                  *)
(*   members of a JSON object, each standing for `"key": value,`:          *)
(*   "T" courseTitle   "D" courseDescription   "I" courseIcon              *)
(*   "L" lesson_outline_plan, a list of well-formed items                  *)
(*   "B" lesson_outline_plan, a list whose last item lacks planned_title   *)
(*   "E" lesson_outline_plan: []     "N" lesson_outline_plan: "none"       *)
(***************************************************************************)
Members == {"T", "D", "I", "L", "B", "E", "N"}
OutlineMembers == {"L", "B", "E", "N"}

NoMatch == <<"no match">>           \* re.search returned None
JSONDecodeError == <<"JSONDecodeError">>
NonObject == <<"n">>                \* what json.loads returns for the text n

\* str.strip()
strip(s) ==
    LET kept == { i \in 1 .. Len(s) : s[i] # "W" }
    IN  IF kept = {} THEN <<>>
        ELSE SubSeq(s, CHOOSE i \in kept : \A k \in kept : i <= k,
                       CHOOSE i \in kept : \A k \in kept : i >= k)

\* The rest of s after position e matches \s*```
ClosesAfter(s, e) ==
    \E r \in (e + 1) .. Len(s) :
        s[r] = "F" /\ \A k \in (e + 1) .. (r - 1) : s[k] = "W"

\* How many white-space tokens follow from position q on.
SpacesFrom(s, q) ==
    LET stops == { k \in q .. (Len(s) + 1) : k = Len(s) + 1 \/ s[k] # "W" }
    IN  (CHOOSE k \in stops : \A m \in stops : k <= m) - q

\* group(1) of re.search(r"```json\s*([\s\S]+?)\s*```", s) (tagged) or of
\* re.search(r"```\s*([\s\S]+?)\s*```", s): the leftmost opener that has a match,
\* the greedy \s* as long as possible, the lazy group as short as possible.
FenceGroup(s, tagged) ==
    LET After(p) == IF tagged THEN p + 2 ELSE p + 1
        Opener(p) == /\ s[p] = "F"
                     /\ tagged => (p + 1 <= Len(s) /\ s[p + 1] = "j")
        Cands(p) == { c \in (0 .. SpacesFrom(s, After(p))) \X (1 .. Len(s)) :
                         /\ c[2] >= After(p) + c[1]
                         /\ ClosesAfter(s, c[2]) }
        Starts == { p \in 1 .. Len(s) : Opener(p) /\ Cands(p) # {} }
    IN  IF Starts = {} THEN NoMatch
        ELSE LET p == CHOOSE x \in Starts : \A y \in Starts : x <= y
                 c == CHOOSE x \in Cands(p) :
                         \A y \in Cands(p) :
                             x[1] > y[1] \/ (x[1] = y[1] /\ x[2] <= y[2])
             IN  SubSeq(s, After(p) + c[1], c[2])

\* group(1) of re.search(r'(\{[\s\S]*\})', s): the first { through the last }.
BraceSpan(s) ==
    LET opens == { i \in 1 .. Len(s) : s[i] = "{" }
        closes == { i \in 1 .. Len(s) : s[i] = "}" }
    IN  IF opens = {} \/ closes = {} THEN NoMatch
        ELSE LET p == CHOOSE i \in opens : \A k \in opens : i <= k
                 r == CHOOSE i \in closes : \A k \in closes : i >= k
             IN  IF p < r THEN SubSeq(s, p, r) ELSE NoMatch

IsBareObject(stripped) ==
    /\ Len(stripped) >= 1
    /\ stripped[1] = "{"
    /\ stripped[Len(stripped)] = "}"

\* The same search with the generic fence tried before the tagged one.
extract_json_string_generic_first(content) ==
    IF FenceGroup(content, FALSE) # NoMatch THEN strip(FenceGroup(content, FALSE))
    ELSE IF FenceGroup(content, TRUE) # NoMatch THEN strip(FenceGroup(content, TRUE))
    ELSE IF IsBareObject(strip(content)) THEN strip(content)
    ELSE BraceSpan(content)

\* CourseParser._extract_json_string; NoMatch stands for None (an empty string is
\* treated like None by the caller).
extract_json_string(content) ==
    IF FenceGroup(content, TRUE) # NoMatch THEN strip(FenceGroup(content, TRUE))
    ELSE IF FenceGroup(content, FALSE) # NoMatch THEN strip(FenceGroup(content, FALSE))
    ELSE IF IsBareObject(strip(content)) THEN strip(content)
    ELSE BraceSpan(content)

\* re.sub(r'[\x00-\x08\x0B-\x0C\x0E-\x1F\x7F]', '', s)
clean_json_string(json_string) ==
    SelectSeq(json_string, LAMBDA tok : tok # "C")

\* json.loads: an object is given by its members in order; JSONDecodeError otherwise.
json_loads(text) ==
    LET x == strip(text)
    IN  IF x = NonObject THEN NonObject
        ELSE IF /\ Len(x) >= 2
                /\ x[1] = "{"
                /\ x[Len(x)] = "}"
                /\ \A i \in 2 .. (Len(x) - 1) : x[i] \in Members \cup {"W"}
        THEN <<"{">> \o SelectSeq(x, LAMBDA tok : tok \in Members) \o <<"}">>
        ELSE JSONDecodeError

\* CourseParser.parse_course_plan; JSONDecodeError stands for the None it returns.
parse_course_plan(content) ==
    LET json_string == extract_json_string(content)
    IN  IF json_string = NoMatch \/ json_string = <<>> THEN JSONDecodeError
        ELSE json_loads(clean_json_string(json_string))

\* crud.create_course_with_team, lines 795-827: the text handed to json.loads.
crud_json_string_to_parse(planner_content_str) ==
    LET found ==
          IF FenceGroup(planner_content_str, TRUE) # NoMatch
          THEN strip(FenceGroup(planner_content_str, TRUE))
          ELSE IF FenceGroup(planner_content_str, FALSE) # NoMatch
          THEN strip(FenceGroup(planner_content_str, FALSE))
          ELSE IF IsBareObject(strip(planner_content_str)) THEN strip(planner_content_str)
          ELSE IF BraceSpan(planner_content_str) # NoMatch THEN BraceSpan(planner_content_str)
          ELSE planner_content_str
    IN  IF strip(found) = <<>> THEN planner_content_str ELSE found

\* Lines 831-839.
crud_parse(planner_content_str) ==
    json_loads(clean_json_string(crud_json_string_to_parse(planner_content_str)))

(***************************************************************************)
(* Plan extraction applied to planner answers that carry an object.        *)
(***************************************************************************)
\* Objects a planner answer may carry, written with and without white space.
CarriedObjects ==
    { <<"{", "T", "W", "D", "W", "L", "}">>,
      <<"{", "W", "T", "D", "E", "W", "}">>,
      <<"{", "D", "}">>,
      <<"{", "}">> }

\* How the answer carries the object: in a fence tagged json, in a fence without a
\* tag, as the whole text, or inside prose.
Carriers == {"json_fence", "generic_fence", "whole", "prose"}

Carried(carrier, object) ==
    CASE carrier = "json_fence" -> <<"F", "j", "W">> \o object \o <<"W", "F">>
      [] carrier = "generic_fence" -> <<"F", "W">> \o object \o <<"W", "F">>
      [] carrier = "whole" -> object
      [] carrier = "prose" -> <<"t", "W">> \o object \o <<"W", "t">>

\* What may stand before and after: nothing, white space, prose, prose with braces,
\* a control character, another fenced block (tagged or not).
Surroundings ==
    { <<>>, <<"W">>, <<"t", "W">>, <<"W", "t", "{", "t", "}", "W">>, <<"C">>,
      <<"F", "W", "t", "W", "F", "W">>, <<"F", "j", "W", "{", "T", "}", "W", "F", "W">> }

NoExtraction ==
    [impl |-> None, object |-> <<>>, carrier |-> None, before |-> <<>>, after |-> <<>>,
     content |-> <<>>, result |-> <<>>]

\* A planner answer that carries object, before it is handed to extraction.
PlannerAnswer(object, carrier, before, after) ==
    [impl |-> None, object |-> object, carrier |-> carrier, before |-> before,
     after |-> after, content |-> before \o Carried(carrier, object) \o after,
     result |-> <<>>]

PlannerAnswers ==
    { PlannerAnswer(object, carrier, before, after) :
        object \in CarriedObjects, carrier \in Carriers,
        before \in Surroundings, after \in Surroundings }

\* CourseParser.parse_course_plan applied to the answer.
parse_course_plan_call ==
    /\ extraction \in PlannerAnswers
    /\ extraction' = [extraction EXCEPT !.impl = "parser",
                                        !.result = parse_course_plan(extraction.content)]
    /\ UNCHANGED <<courses, lessons, quizzes, tasks, regen, calls, hist, retry, agg,
                   finals, planning, reply, linkrow>>

\* Lines 795-839 of crud.create_course_with_team applied to the answer.
crud_parse_call ==
    /\ extraction \in PlannerAnswers
    /\ extraction' = [extraction EXCEPT !.impl = "crud",
                                        !.result = crud_parse(extraction.content)]
    /\ UNCHANGED <<courses, lessons, quizzes, tasks, regen, calls, hist, retry, agg,
                   finals, planning, reply, linkrow>>

(***************************************************************************)
(* Lesson content as text, and the links the save paths store with it      *)
(***************************************************************************)
\* Content is a sequence of characters.  An answer of the lesson agent is
\* composed of segments: Markdown links [text](url) and other text.
LinkSegment(text, url) == [kind |-> "link", text |-> text, url |-> url]

TextSegment(text) == [kind |-> "text", text |-> text, url |-> <<>>]

Segments ==
    { LinkSegment(<<"a">>, <<"u">>), LinkSegment(<<>>, <<"v">>),
      LinkSegment(<<"a", "b">>, <<"u", "v">>),
      TextSegment(<<"t">>), TextSegment(<<"[", "t", "]">>),
      TextSegment(<<"\\", "[", "t", "\\", "]">>) }

Render(seg) ==
    IF seg.kind = "link" THEN <<"[">> \o seg.text \o <<"]", "(">> \o seg.url \o <<")">>
    ELSE seg.text

RECURSIVE Markdown(_)
Markdown(answer) ==
    IF answer = <<>> THEN <<>> ELSE Render(Head(answer)) \o Markdown(Tail(answer))

\* The first position from..Len(s) of s that holds ch, or 0.
FirstAt(s, ch, from) ==
    LET at == {i \in from..Len(s) : s[i] = ch}
    IN  IF at = {} THEN 0 ELSE CHOOSE i \in at : \A j \in at : i <= j

Least(S) == CHOOSE i \in S : \A j \in S : i <= j

\* re.findall(r"\[[^\]]*?\]\(([^)]+?)\)", content) from position i on: a match
\* starts at a "[", runs to the first "]", needs "(" next and then a non-empty
\* run up to the first ")"; the scan resumes after the match.
RECURSIVE links_from(_, _)
links_from(s, i) ==
    IF i > Len(s) THEN <<>>
    ELSE LET close == IF s[i] = "[" THEN FirstAt(s, "]", i + 1) ELSE 0
             open  == IF close > 0 /\ close < Len(s) /\ s[close + 1] = "(" THEN close + 1 ELSE 0
             end   == IF open > 0 THEN FirstAt(s, ")", open + 1) ELSE 0
         IN  IF end > open + 1
             THEN <<SubSeq(s, open + 1, end - 1)>> \o links_from(s, end + 1)
             ELSE links_from(s, i + 1)

extract_external_links(content) == links_from(content, 1)

\* re.findall(r"\\[[^\\]]*?\\]\\(([^)]+?)\\)", content), the pattern of the retry
\* thread of crud.py, from position i on: a backslash, one of "[", "^" and backslash,
\* the shortest run of "]", then backslash "]" backslash, then group 1 made of group
\* 2 (the shortest non-empty run without ")") and a backslash.  With two groups
\* findall returns the pair of them for every match.
RunEnds(s, i) ==
    { n \in (i + 1)..Len(s) :
        /\ s[i + 1] \in {"[", "^", "\\"}
        /\ \A k \in (i + 2)..n : s[k] = "]"
        /\ n + 3 <= Len(s)
        /\ s[n + 1] = "\\" /\ s[n + 2] = "]" /\ s[n + 3] = "\\" }

GroupEnds(s, n) ==
    { m \in (n + 4)..(Len(s) - 1) :
        /\ \A k \in (n + 4)..m : s[k] # ")"
        /\ s[m + 1] = "\\" }

RECURSIVE escaped_links_from(_, _)
escaped_links_from(s, i) ==
    IF i > Len(s) THEN <<>>
    ELSE LET runs == IF s[i] = "\\" THEN {n \in RunEnds(s, i) : GroupEnds(s, n) # {}} ELSE {}
         IN  IF runs = {} THEN escaped_links_from(s, i + 1)
             ELSE LET n == Least(runs)
                      m == Least(GroupEnds(s, n))
                  IN  <<<<SubSeq(s, n + 4, m + 1), SubSeq(s, n + 4, m)>>>>
                          \o escaped_links_from(s, m + 2)

crud_retry_extract_links(content) == escaped_links_from(content, 1)

MaxSegments == 3

Answers == UNION { [1..n -> Segments] : n \in 0..MaxSegments }

NothingSaved == [answer |-> <<>>, by |-> None, content_md |-> None, external_links |-> <<>>,
                 generation_status |-> None]

\* The agent answered with non-empty content; no save path has run on it yet.
Answered == { [NothingSaved EXCEPT !.answer = a] : a \in Answers \ {<<>>} }

\* The update a save path writes to the lesson row.
SaveRow(by, links) ==
    /\ linkrow \in Answered
    /\ linkrow' = [linkrow EXCEPT !.by = by,
                              !.content_md = Markdown(linkrow.answer),
                              !.external_links = links,
                              !.generation_status = "completed"]
    /\ UNCHANGED <<courses, lessons, quizzes, tasks, regen, calls, hist, retry, agg,
                   finals, planning, reply, extraction>>

\* CourseService._generate_lessons_background, the success branch of one lesson
\* (initial generation and retry_course_generation run the same loop).
generate_lessons_save == SaveRow("generate", extract_external_links(Markdown(linkrow.answer)))

\* LessonService.regenerate_lesson, the success branch.
regenerate_lesson_save == SaveRow("regenerate", extract_external_links(Markdown(linkrow.answer)))

\* crud.create_course_with_team's generation thread, the success branch.
crud_generate_save == SaveRow("crud_generate", extract_external_links(Markdown(linkrow.answer)))

\* crud.regenerate_lesson, the success branch.
crud_regenerate_save == SaveRow("crud_regenerate", extract_external_links(Markdown(linkrow.answer)))

\* crud.retry_course_generation's thread, the success branch.
crud_retry_save == SaveRow("crud_retry", crud_retry_extract_links(Markdown(linkrow.answer)))

(***************************************************************************)
(* Planning: what the planner answers and what the two planners make of it *)
(* (course_service.py lines 159-217, crud.py lines 782-939).               *)
(***************************************************************************)
NoPlanData == <<"None">>           \* the None a failed planning returns
NoContent == <<>>

\* The lesson_outline_plan member of a parsed object ("absent" when there is none);
\* a repeated key keeps its last value.
OutlineOf(obj) ==
    LET at == { i \in 1 .. Len(obj) : obj[i] \in OutlineMembers }
    IN  IF at = {} THEN "absent" ELSE obj[CHOOSE i \in at : \A k \in at : i >= k]

HasMember(obj, member) == \E i \in 1 .. Len(obj) : obj[i] = member

\* A planner answer: kind "content" carries a text; "no_content" is a response with
\* empty content; "error" is a failed call (the ErrorResponse of CoursePlannerAgent.run,
\* an exception out of Agent.run in crud.py).
PlannerResponse(kind, content) == [kind |-> kind, content |-> content]

\* course_service.py lines 175-185: how _generate_course_plan reads what run handed
\* back; text: the content as the planner texts are written here.
planner_response_of(resp, text) ==
    IF resp.error \notin {None, ""} THEN PlannerResponse("error", NoContent)
    ELSE IF resp.content \in {None, ""} THEN PlannerResponse("no_content", NoContent)
    ELSE PlannerResponse("content", text)

\* CourseService._generate_course_plan: the planner is asked once.
generate_course_plan(planner_response) ==
    IF planner_response.kind # "content" THEN NoPlanData
    ELSE LET plan_data == json_loads(planner_response.content)
         IN  IF plan_data = JSONDecodeError THEN NoPlanData
             ELSE IF plan_data = NonObject THEN NoPlanData
             ELSE IF \/ ~ HasMember(plan_data, "T")
                     \/ ~ HasMember(plan_data, "D")
                     \/ OutlineOf(plan_data) = "absent" THEN NoPlanData
             ELSE IF OutlineOf(plan_data) \in {"N", "E"} THEN NoPlanData
             ELSE plan_data

\* e.msg of the JSONDecodeError for a text json.loads rejects: "Extra data" when a
\* complete value is followed by something else, an "Expecting ..." message otherwise.
json_error_msg(text) ==
    LET x == strip(text)
        closes == { i \in 1 .. Len(x) : x[i] = "}" }
        r == CHOOSE i \in closes : \A k \in closes : i <= k
    IN  IF Len(x) >= 2 /\ x[1] = "n" THEN "Extra data"
        ELSE IF /\ Len(x) >= 2 /\ x[1] = "{" /\ closes # {}
                /\ r < Len(x)
                /\ \A i \in 2 .. (r - 1) : x[i] \in Members \cup {"W"}
        THEN "Extra data"
        ELSE "Expecting value"

\* crud.py lines 862-876: the search for a shorter, complete object without nested
\* braces that has the four keys in order, and its parse.
shorter_json(planner_content_str) ==
    LET s == planner_content_str
        Flat(p, r) ==
            /\ s[p] = "{" /\ s[r] = "}"
            /\ \A k \in (p + 1) .. (r - 1) : s[k] \notin {"{", "}", "L", "B"}
            /\ \E a, b, c, d \in (p + 1) .. (r - 1) :
                  /\ a < b /\ b < c /\ c < d
                  /\ s[a] = "T" /\ s[b] = "D" /\ s[c] = "I" /\ s[d] \in {"E", "N"}
        Starts == { p \in 1 .. Len(s) : \E r \in (p + 1) .. Len(s) : Flat(p, r) }
    IN  IF Starts = {} THEN NoPlanData
        ELSE LET p == CHOOSE x \in Starts : \A y \in Starts : x <= y
                 r == CHOOSE y \in (p + 1) .. Len(s) : Flat(p, y)
                 parsed == json_loads(clean_json_string(SubSeq(s, p, r)))
             IN  IF parsed = JSONDecodeError THEN NoPlanData ELSE parsed

\* Lines 795-886: course_plan_json after the first answer was parsed.
crud_first_parse(planner_content_str) ==
    LET text == clean_json_string(crud_json_string_to_parse(planner_content_str))
        parsed == json_loads(text)
    IN  IF parsed # JSONDecodeError THEN parsed
        ELSE IF json_error_msg(text) = "Extra data" THEN NoPlanData
        ELSE shorter_json(planner_content_str)

\* Line 888: the structure check that leads to the simpler request.
crud_needs_retry(course_plan_json) ==
    \/ course_plan_json = <<"{", "}">>
    \/ course_plan_json = NonObject
    \/ OutlineOf(course_plan_json) \in {"absent", "N"}

\* Lines 893-914: the answer to the simpler request; NoPlanData when the function
\* returns None there.
crud_retry_parse(retry_response) ==
    IF retry_response.kind # "content" THEN NoPlanData
    ELSE IF BraceSpan(retry_response.content) = NoMatch THEN NoPlanData
    ELSE LET parsed == json_loads(clean_json_string(BraceSpan(retry_response.content)))
         IN  IF parsed = JSONDecodeError THEN NoPlanData ELSE parsed

\* Lines 916-931: an empty outline and outline items that fail validation end the
\* request; a missing or non-list outline raises into the handler at line 935.
crud_validate_outline(course_plan_json) ==
    IF OutlineOf(course_plan_json) = "L" THEN course_plan_json ELSE NoPlanData

\* The planning part of crud.create_course_with_team: the plan (NoPlanData: the
\* request returns None) and how often the planner was prompted.
crud_generate_plan(planner_response, retry_response) ==
    IF planner_response.kind # "content" THEN [plan |-> NoPlanData, prompts |-> 1]
    ELSE LET first == crud_first_parse(planner_response.content)
         IN  IF first = NoPlanData THEN [plan |-> NoPlanData, prompts |-> 1]
             ELSE IF crud_needs_retry(first)
             THEN LET second == crud_retry_parse(retry_response)
                  IN  [plan |-> IF second = NoPlanData THEN NoPlanData
                                ELSE crud_validate_outline(second),
                       prompts |-> 2]
             ELSE [plan |-> crud_validate_outline(first), prompts |-> 1]

\* Texts the planner is taken to answer with: objects with and without the required
\* keys, bare, fenced and inside prose, and texts that hold no object.
FullObject == <<"{", "T", "W", "D", "W", "L", "}">>

PlanObjects ==
    { FullObject,
      <<"{", "}">>,
      <<"{", "D", "L", "}">>,           \* no courseTitle
      <<"{", "T", "L", "}">>,           \* no courseDescription
      <<"{", "T", "D", "}">>,           \* no lesson_outline_plan
      <<"{", "T", "D", "E", "}">>,      \* an empty outline
      <<"{", "T", "D", "N", "}">>,      \* an outline that is not a list
      <<"{", "T", "D", "B", "}">>,      \* an outline item without planned_title
      <<"{", "T", "D", "I", "L", "}">> }

PlanTexts ==
    PlanObjects
    \cup { <<"F", "j", "W">> \o FullObject \o <<"W", "F">>,
           <<"t", "W">> \o FullObject \o <<"W", "t">>,
           <<"W">> \o FullObject \o <<"C", "W">>,
           <<"t">>, <<"n">>,
           <<"{", "T", "D">>,                                          \* cut off
           <<"{", "t", "}", "W", "{", "T", "D", "I", "N", "}">>,
           <<"{", "t", "}", "W", "{", "T", "D", "I", "E", "}">>,
           <<"{", "T", "D", "I", "N", "}", "t", "}">> }

PlannerResponses ==
    { PlannerResponse("error", NoContent), PlannerResponse("no_content", NoContent) }
    \cup { PlannerResponse("content", x) : x \in PlanTexts }

\* Answers to the simpler request.
RetryResponses ==
    { PlannerResponse("error", NoContent),
      PlannerResponse("content", <<"t">>),
      PlannerResponse("content", <<"t", "W">> \o FullObject),
      PlannerResponse("content", <<"{", "T", "D", "}">>),
      PlannerResponse("content", <<"{", "T", "D", "E", "}">>) }

NoPlanning ==
    [req |-> 0, impl |-> None, first |-> PlannerResponse("error", NoContent),
     second |-> PlannerResponse("error", NoContent), prompts |-> 0,
     plan |-> NoPlanData, returned |-> None]

(***************************************************************************)
(* The tables and the plans.                                               *)
(***************************************************************************)
MaxOutline == 2     \* longest lesson_outline_plan
MaxTasks == 1       \* generation runs in progress at the same time
MaxOverlap == 2     \* the same, where a retry may find a run in progress
MaxOps == 3         \* learner / admin requests made in one behaviour
MaxFaults == 1      \* repository calls that fail in one behaviour

CourseIds == {"c1"}

\* An item of lesson_outline_plan. valid = FALSE: an item LessonOutlineItem(**item)
\* rejects (planned_title is missing).
OutlineItem(i, title, q, v) ==
    [order |-> i - 1, planned_title |-> title, has_quiz |-> q, valid |-> v]

ItemKinds == {"plain", "quiz", "invalid"}

MakePlan(fam, kinds) ==
    [i \in 1 .. Len(kinds) |->
        OutlineItem(i, <<fam, i - 1>>, kinds[i] = "quiz", kinds[i] # "invalid")]

\* Outlines of every length up to MaxOutline without quizzes, and the longest one
\* with a quiz on its first lesson or with a malformed last item.
KindLists ==
    { [i \in 1 .. n |-> "plain"] : n \in 1 .. MaxOutline }
    \cup { [i \in 1 .. MaxOutline |-> IF i = 1 THEN "quiz" ELSE "plain"],
           [i \in 1 .. MaxOutline |-> IF i = MaxOutline THEN "invalid" ELSE "plain"] }

\* Plans the planner agent returns (courseTitle, courseDescription present).
PlannerPlans == { MakePlan("P", k) : k \in KindLists }

ValidPlan(plan) == \A i \in 1 .. Len(plan) : plan[i].valid

NoCourse ==
    [exists |-> FALSE, generation_status |-> None, user_facing_status |-> None,
     lesson_outline_plan |-> <<>>, has_quizzes |-> FALSE, subject |-> None,
     difficulty |-> None]

LessonsOf(ls, c) == { l \in ls : l.course_id = c }

\* lesson_repo.update(id, update_data): the row with that id, if any, takes the
\* values of update_data.
UpdateLesson(ls, id, update_data) ==
    { IF l.id = id
      THEN [f \in DOMAIN l |-> IF f \in DOMAIN update_data THEN update_data[f] ELSE l[f]]
      ELSE l : l \in ls }

HasLesson(ls, id) == \E l \in ls : l.id = id

RECURSIVE OrderedRows(_)
\* ... .order("order_in_course"): the rows as a list.
OrderedRows(rows) ==
    IF rows = {} THEN <<>>
    ELSE LET first == CHOOSE l \in rows :
                        \A m \in rows : l.order_in_course < m.order_in_course
                                        \/ (l.order_in_course = m.order_in_course /\ l.id <= m.id)
         IN  <<first>> \o OrderedRows(rows \ {first})

StatusesOf(rows) ==
    LET seq == OrderedRows(rows) IN [i \in 1 .. Len(seq) |-> seq[i].user_facing_status]

(***************************************************************************)
(* Bookkeeping: the requests made and the repository faults used so far.   *)
(***************************************************************************)
Request == /\ hist.ops < MaxOps
           /\ hist' = [hist EXCEPT !.ops = @ + 1]
FaultStep == /\ hist.faults < MaxFaults
             /\ hist' = [hist EXCEPT !.faults = @ + 1]
\* ok = TRUE: the repository call of this step works; FALSE: it fails (one fault).
Env(ok) == IF ok THEN UNCHANGED hist ELSE FaultStep

(***************************************************************************)
(* services/course_service.py: CourseService                               *)
(***************************************************************************)
NewTask(impl, c, plan, hq, by_retry) ==
    [impl |-> impl, course |-> c, plan |-> plan, has_quizzes |-> hq,
     pc |-> IF impl = "service" THEN "start" ELSE "item",
     idx |-> 1, lesson_id |-> NoId, by_retry |-> by_retry,
     agent_failed |-> {},      \* items whose content agent call failed, for the record
     skipped |-> {},           \* items whose placeholder insert gave no row
     escaped |-> FALSE]        \* an exception left the per-lesson handling of the loop

\* Every run is started by a creation or by a retry request.
TaskIds == 1 .. (Cardinality(CourseIds) + MaxOps)

\* Generation runs that have not finished.
Running == { t \in DOMAIN tasks : tasks[t].pc # "done" }

SetCourseGen_resetting_progress(cs, c, status) ==
    IF cs[c].exists
    THEN [cs EXCEPT ![c].generation_status = status, ![c].user_facing_status = "not_started"]
    ELSE cs

\* course_repo.update(course_id, {"generation_status": status})
SetCourseGen(cs, c, status) ==
    IF cs[c].exists THEN [cs EXCEPT ![c].generation_status = status] ELSE cs

\* _prepare_course_data; the request names a subject.
prepare_course_data(plan_data, has_quizzes) ==
    [exists |-> TRUE, generation_status |-> "draft", user_facing_status |-> "not_started",
     lesson_outline_plan |-> plan_data, has_quizzes |-> has_quizzes, subject |-> "subject",
     difficulty |-> "medium"]

\* create_course_with_team(title, subject, difficulty, has_quizzes) given what
\* _generate_course_plan returned as plan_data (<<>>: None); saved: course_repo.create
\* worked.
create_course_from_plan(c, has_quizzes, plan_data, saved) ==
    /\ ~ courses[c].exists
    /\ Cardinality(Running) < MaxTasks
    /\ IF ~ has_quizzes \/ plan_data = <<>> \/ ~ saved
       THEN UNCHANGED <<courses, tasks>>
       ELSE /\ courses' = [courses EXCEPT ![c] = prepare_course_data(plan_data, has_quizzes)]
            /\ tasks' = Append(tasks, NewTask("service", c, plan_data, has_quizzes, FALSE))
    /\ hist.ops < MaxOps
    /\ IF has_quizzes /\ plan_data # <<>> /\ ~ saved
       THEN /\ hist.faults < MaxFaults
            /\ hist' = [hist EXCEPT !.ops = @ + 1, !.faults = @ + 1]
       ELSE /\ saved
            /\ hist' = [hist EXCEPT !.ops = @ + 1]
    /\ UNCHANGED <<lessons, quizzes, regen, calls>>

\* The request with the outcome of its planning given.
create_course_with_team(c, has_quizzes, plan_data, saved) ==
    /\ create_course_from_plan(c, has_quizzes, plan_data, saved)
    /\ UNCHANGED apart

\* The outline a parsed plan carries.
OutlinePlanOf(plan) ==
    IF plan = NoPlanData THEN <<>>
    ELSE IF OutlineOf(plan) = "L" THEN MakePlan("P", <<"plain">>)
    ELSE MakePlan("P", [i \in 1 .. MaxOutline |-> IF i = MaxOutline THEN "invalid" ELSE "plain"])

\* The whole request: the planner is asked (line 128), then the course is saved and
\* the generation thread started. The request returns the course or None.
create_course_request(c, planner_response, saved) ==
    LET plan == generate_course_plan(planner_response)
    IN  /\ create_course_from_plan(c, TRUE, OutlinePlanOf(plan), saved)
        /\ planning' = [req |-> hist.ops + 1, impl |-> "service",
                        first |-> planner_response,
                        second |-> PlannerResponse("error", NoContent),
                        prompts |-> 1, plan |-> plan,
                        returned |-> IF plan # NoPlanData /\ saved THEN "course" ELSE None]
        /\ UNCHANGED <<retry, agg, finals, reply, extraction, linkrow>>

\* What the request records when it is rejected before the planner is asked.
RejectedRequest(req) ==
    [req |-> req, impl |-> "service", first |-> PlannerResponse("error", NoContent),
     second |-> PlannerResponse("error", NoContent), prompts |-> 0,
     plan |-> NoPlanData, returned |-> None]

\* A request that goes on to planning whatever has_quizzes says.
create_course_call_unvalidated(c, has_quizzes, planner_response, saved) ==
    LET plan == generate_course_plan(planner_response)
    IN  /\ create_course_from_plan(c, TRUE, OutlinePlanOf(plan), saved)
        /\ planning' = [req |-> hist.ops + 1, impl |-> "service",
                        first |-> planner_response,
                        second |-> PlannerResponse("error", NoContent),
                        prompts |-> 1, plan |-> plan,
                        returned |-> IF plan # NoPlanData /\ saved THEN "course" ELSE None]
        /\ UNCHANGED <<retry, agg, finals, reply, extraction, linkrow>>

\* create_course_with_team(title, subject, difficulty, has_quizzes), lines 116-157, with
\* the check of lines 122-125 first: has_quizzes False raises ValueError inside the try,
\* the handler at line 153 returns None. Otherwise the request goes on as above.
create_course_call(c, has_quizzes, planner_response, saved) ==
    IF has_quizzes
    THEN create_course_request(c, planner_response, saved)
    ELSE /\ create_course_from_plan(c, FALSE, OutlinePlanOf(NoPlanData), saved)
         /\ planning' = RejectedRequest(hist.ops + 1)
         /\ UNCHANGED <<retry, agg, finals, reply, extraction, linkrow>>

TaskAt(t, pc, impl) ==
    /\ t \in 1 .. Len(tasks)
    /\ tasks[t].pc = pc
    /\ tasks[t].impl = impl

\* generate_lessons, line 251: the course is marked generating.
gen_start(t, ok) ==
    /\ TaskAt(t, "start", "service")
    /\ courses' = IF ok THEN SetCourseGen(courses, tasks[t].course, "generating") ELSE courses
    /\ tasks' = [tasks EXCEPT ![t].pc = "item"]
    /\ Env(ok)
    /\ UNCHANGED <<lessons, quizzes, regen, calls, apart>>

\* The id the database gives a new lessons row: one no row has and nobody still
\* holds. Ids are opaque, so the least such number stands for a fresh uuid.
new_id(used) == CHOOSE i \in 1 .. (Cardinality(used) + 1) :
                    i \notin used /\ \A j \in 1 .. (i - 1) : j \in used

\* Lesson ids present in a table or held by a running request or thread.
UsedIds ==
    {l.id : l \in lessons} \cup {q.lesson_id : q \in quizzes}
    \cup {tasks[t].lesson_id : t \in DOMAIN tasks}
    \cup {r.lesson_id : r \in regen} \cup {k.lesson_id : k \in calls}

lesson_placeholder_data(id, c, item) ==
    [id |-> id, course_id |-> c, title |-> item.planned_title,
     order_in_course |-> item.order, generation_status |-> "planned",
     user_facing_status |-> "not_started", content_md |-> None,
     has_quiz |-> item.has_quiz]

\* A loop that is followed by the final quiz whatever has_quizzes says.
AfterItems_always_final_quiz(task) == "final_quiz"

\* Line 337: `if has_quizzes:` decides whether the final-quiz step follows the loop.
AfterItems(task) ==
    IF task.has_quizzes THEN "final_quiz" ELSE "complete"

\* A loop that gives up at the first placeholder that cannot be inserted.
after_failed_insert_aborting(task) ==
    [task EXCEPT !.pc = "failed", !.skipped = @ \cup {task.idx}]

\* Lines 269-271: no row came back from lesson_repo.create: the error is logged and
\* `continue` moves the loop to the next outline item.
after_failed_insert(task) ==
    [task EXCEPT !.idx = @ + 1, !.skipped = @ \cup {task.idx}]

\* Lines 253-274: the next outline item is parsed and its placeholder inserted; past
\* the last item the run goes on to the final quiz.
gen_create_placeholder(t, ok) ==
    /\ TaskAt(t, "item", "service")
    /\ LET task == tasks[t] IN
       IF task.idx > Len(task.plan)
       THEN /\ ok
            /\ tasks' = [tasks EXCEPT ![t].pc = AfterItems(task)]
            /\ UNCHANGED lessons
       ELSE IF ~ task.plan[task.idx].valid
       THEN \* LessonOutlineItem(**item) raises: the outer handler takes over
            /\ ok
            /\ tasks' = [tasks EXCEPT ![t].pc = "failed", ![t].escaped = TRUE]
            /\ UNCHANGED lessons
       ELSE IF ok
       THEN /\ lessons' = lessons \cup
                    {lesson_placeholder_data(new_id(UsedIds), task.course, task.plan[task.idx])}
            /\ tasks' = [tasks EXCEPT ![t].pc = "mark_generating", ![t].lesson_id = new_id(UsedIds)]
       ELSE /\ tasks' = [tasks EXCEPT ![t] = after_failed_insert(task)]
            /\ UNCHANGED lessons
    /\ Env(ok)
    /\ UNCHANGED <<courses, quizzes, regen, calls, apart>>

SetLessonGen(ls, id, status) ==
    UpdateLesson(ls, id, [generation_status |-> status])

\* Line 277: the lesson is marked generating before the agent is called.
gen_mark_generating(t, ok) ==
    /\ TaskAt(t, "mark_generating", "service")
    /\ lessons' = IF ok THEN SetLessonGen(lessons, tasks[t].lesson_id, "generating") ELSE lessons
    /\ tasks' = [tasks EXCEPT ![t].pc = "agent"]
    /\ Env(ok)
    /\ UNCHANGED <<courses, quizzes, regen, calls, apart>>

\* What LessonContentAgent.run hands back: content, or an ErrorResponse (content None).
AgentResponses == {"content", "connection_error", "other_error", "no_content"}

\* course_service.py lines 290 and 313-319 (lesson_service.py lines 103, 127-136
\* likewise): how the caller reads what run handed back. The error is wrapped in a
\* plain Exception before is_retryable_error sees it, so only its message counts.
response_kind(resp) ==
    IF resp.content \notin {None, ""} THEN "content"
    ELSE IF resp.error \notin {None, ""}
    THEN IF is_retryable_error([msg |-> resp.error, typ |-> "exception"])
         THEN "connection_error" ELSE "other_error"
    ELSE "no_content"

\* An update that writes the learner's status as well.
SaveContent_resetting_progress(ls, id) ==
    UpdateLesson(ls, id, [generation_status |-> "completed", content_md |-> "content",
                          user_facing_status |-> "not_started"])

\* The update that stores generated content: content, links and status completed.
SaveContent(ls, id) ==
    UpdateLesson(ls, id, [generation_status |-> "completed", content_md |-> "content"])

\* The lesson row after the response is handled (lines 290-299, 313-322).
save_response_always_completed(ls, id, response) == SaveContent(ls, id)

save_response(ls, id, response) ==
    IF response = "content"
    THEN SaveContent(ls, id)
    ELSE SetLessonGen(ls, id, "generation_failed")

\* Lines 287-322: the agent answers and the lesson row is updated.
gen_lesson_content(t, response, ok) ==
    /\ TaskAt(t, "agent", "service")
    /\ LET task == tasks[t] IN
       /\ lessons' = IF ok THEN save_response(lessons, task.lesson_id, response) ELSE lessons
       /\ tasks' = IF response = "content" /\ task.plan[task.idx].has_quiz
                   THEN [tasks EXCEPT ![t].pc = "lesson_quiz"]
                   ELSE [tasks EXCEPT ![t].pc = "item", ![t].idx = @ + 1,
                                      ![t].agent_failed =
                                          IF response = "content" THEN @ ELSE @ \cup {task.idx}]
    /\ Env(ok)
    /\ UNCHANGED <<courses, quizzes, regen, calls, apart>>

(***************************************************************************)
(* services/quiz_service.py: QuizService                                   *)
(***************************************************************************)
ActiveQuizOfLesson(qs, lid) == { q \in qs : q.lesson_id = lid /\ q.is_active }
ActiveFinalQuiz(qs, c) == { q \in qs : q.course_id = c /\ q.lesson_id = NoId /\ q.is_active }

\* What the quiz step gets: a quiz, a missing result, or an exception.
QuizResponses == {"quiz", "error", "raises"}

\* A quiz step whose failure marks the lesson generation_failed.
create_quiz_for_lesson_reverting(qs, ls, c, lid, response, ok) ==
    IF response # "quiz" \/ ~ ok
    THEN <<qs, SetLessonGen(ls, lid, "generation_failed")>>
    ELSE << qs \cup {[course_id |-> c, lesson_id |-> lid,
                      is_final_quiz |-> FALSE, is_active |-> TRUE]},
            UpdateLesson(ls, lid, [has_quiz |-> TRUE]) >>

\* create_quiz_for_lesson(course_id, lesson_id): the tables afterwards.
\* response: what the quiz agent returns; ok: quiz_repository.create works.
create_quiz_for_lesson(qs, ls, c, lid, response, ok) ==
    IF ActiveQuizOfLesson(qs, lid) # {} THEN <<qs, ls>>
    ELSE IF ~ HasLesson(ls, lid) THEN <<qs, ls>>
    ELSE IF (CHOOSE l \in ls : l.id = lid).content_md = None THEN <<qs, ls>>
    ELSE IF response # "quiz" \/ ~ ok THEN <<qs, ls>>
    ELSE << qs \cup {[course_id |-> c, lesson_id |-> lid,
                      is_final_quiz |-> FALSE, is_active |-> TRUE]},
            UpdateLesson(ls, lid, [has_quiz |-> TRUE]) >>

\* Lines 41-47 and 219-244: whether the call gets as far as quiz_generator.run.
quiz_agent_invoked(qs, ls, lid) ==
    /\ ActiveQuizOfLesson(qs, lid) = {}
    /\ HasLesson(ls, lid)
    /\ (CHOOSE l \in ls : l.id = lid).content_md # None

\* What create_quiz_for_lesson returns: the existing quiz (line 38), None, or the row
\* it created (line 70).
quiz_returned(qs, ls, c, lid, response, ok) ==
    IF ActiveQuizOfLesson(qs, lid) # {} THEN CHOOSE q \in ActiveQuizOfLesson(qs, lid) : TRUE
    ELSE IF ~ quiz_agent_invoked(qs, ls, lid) \/ response # "quiz" \/ ~ ok THEN None
    ELSE [course_id |-> c, lesson_id |-> lid, is_final_quiz |-> FALSE, is_active |-> TRUE]

\* The lesson ids a request can name: the lessons stored and the lessons of the quizzes.
QuizLessonIds == ({l.id : l \in lessons} \cup {q.lesson_id : q \in quizzes}) \ {NoId}

\* POST /quizzes/lessons/{lesson_id}/quiz (routers/quizzes.py lines 11-30).
create_quiz_request(c, lid, response, ok) ==
    /\ hist.ops < MaxOps
    /\ lid \in QuizLessonIds
    /\ (~ ok => /\ hist.faults < MaxFaults
                /\ response = "quiz"
                /\ quiz_agent_invoked(quizzes, lessons, lid))
    /\ hist' = [hist EXCEPT !.ops = @ + 1, !.faults = @ + (IF ok THEN 0 ELSE 1)]
    /\ LET after == create_quiz_for_lesson(quizzes, lessons, c, lid, response, ok)
       IN  /\ quizzes' = after[1]
           /\ lessons' = after[2]
    /\ UNCHANGED <<courses, tasks, regen, calls, apart>>

\* course_service.py lines 303-312: the lesson's quiz, right after its content.
gen_lesson_quiz(t, response, ok) ==
    /\ TaskAt(t, "lesson_quiz", "service")
    /\ LET task == tasks[t]
           after == create_quiz_for_lesson(quizzes, lessons, task.course,
                                           task.lesson_id, response, ok)
       IN  /\ quizzes' = after[1]
           /\ lessons' = after[2]
           /\ (~ ok => /\ response = "quiz"
                       /\ ActiveQuizOfLesson(quizzes, task.lesson_id) = {}
                       /\ HasLesson(lessons, task.lesson_id))
    /\ tasks' = [tasks EXCEPT ![t].pc = "item", ![t].idx = @ + 1]
    /\ Env(ok)
    /\ UNCHANGED <<courses, regen, calls, apart>>

\* quiz_repository.get_final_quiz_by_course_id: the rows the query matches.
get_final_quiz_by_course_id(qs, c) ==
    { q \in qs : q.course_id = c /\ q.is_final_quiz /\ q.is_active }

\* Lines 86-113 as they would run if LessonRepository had get_course_with_lessons and
\* the quiz agent answered: the final quiz row is inserted.
final_quiz_inserted(qs, c) ==
    qs \cup {[course_id |-> c, lesson_id |-> NoId, is_final_quiz |-> TRUE,
              is_active |-> TRUE, id |-> Cardinality(qs) + 1]}

\* Lines 86-117 after the check found no final quiz: LessonRepository has no
\* get_course_with_lessons, the AttributeError is caught at line 115 and None is
\* returned. The table is left as it is.
final_quiz_after_check(qs, c) == qs

\* create_final_quiz_for_course: an existing final quiz is returned, otherwise the
\* rest of the function runs.
create_final_quiz_for_course(qs, c) ==
    IF get_final_quiz_by_course_id(qs, c) # {} THEN qs ELSE final_quiz_after_check(qs, c)

\* What create_final_quiz_for_course returns: the existing final quiz (line 83), or
\* None from the handler at line 117.
final_quiz_returned(qs, c) ==
    IF get_final_quiz_by_course_id(qs, c) # {}
    THEN CHOOSE q \in get_final_quiz_by_course_id(qs, c) : TRUE
    ELSE None

\* A request that goes on to lines 86-117 whatever the table holds.
final_quiz_request_unchecked(c) ==
    /\ Request
    /\ finals' = finals \cup {[req |-> hist.ops + 1, course_id |-> c]}
    /\ UNCHANGED <<courses, lessons, quizzes, tasks, regen, calls, retry, agg, planning, reply, extraction, linkrow>>

\* POST /quizzes/courses/{course_id}/final-quiz, lines 80-83: the check for an
\* existing final quiz. A request that found none goes on.
final_quiz_request(c) ==
    /\ Request
    /\ finals' = IF get_final_quiz_by_course_id(quizzes, c) # {} THEN finals
                 ELSE finals \cup {[req |-> hist.ops + 1, course_id |-> c]}
    /\ UNCHANGED <<courses, lessons, quizzes, tasks, regen, calls, retry, agg, planning, reply, extraction, linkrow>>

\* The same request, lines 86-117.
final_quiz_create(f) ==
    /\ f \in finals
    /\ quizzes' = final_quiz_after_check(quizzes, f.course_id)
    /\ finals' = finals \ {f}
    /\ UNCHANGED <<courses, lessons, tasks, regen, calls, hist, retry, agg, planning, reply, extraction, linkrow>>

\* course_service.py lines 337-346.
gen_final_quiz(t) ==
    /\ TaskAt(t, "final_quiz", "service")
    /\ quizzes' = create_final_quiz_for_course(quizzes, tasks[t].course)
    /\ tasks' = [tasks EXCEPT ![t].pc = "complete"]
    /\ UNCHANGED hist
    /\ UNCHANGED <<courses, lessons, regen, calls, apart>>

Finished(task) == [task EXCEPT !.pc = "done", !.idx = 1, !.lesson_id = NoId]

\* Line 350: the course is marked completed.
gen_complete(t, ok) ==
    /\ TaskAt(t, "complete", "service")
    /\ courses' = IF ok THEN SetCourseGen(courses, tasks[t].course, "completed") ELSE courses
    /\ tasks' = [tasks EXCEPT ![t] = Finished(@)]
    /\ Env(ok)
    /\ UNCHANGED <<lessons, quizzes, regen, calls, apart>>

\* Lines 352-365: the outer handler marks the course generation_failed.
gen_failed(t, ok) ==
    /\ TaskAt(t, "failed", "service")
    /\ courses' = IF ok THEN SetCourseGen(courses, tasks[t].course, "generation_failed")
                  ELSE courses
    /\ tasks' = [tasks EXCEPT ![t] = Finished(@)]
    /\ Env(ok)
    /\ UNCHANGED <<lessons, quizzes, regen, calls, apart>>

GenerateLessons ==
    \E t \in TaskIds, ok \in BOOLEAN :
        \/ gen_start(t, ok)
        \/ gen_create_placeholder(t, ok)
        \/ gen_mark_generating(t, ok)
        \/ \E r \in AgentResponses : gen_lesson_content(t, r, ok)
        \/ \E r \in QuizResponses : gen_lesson_quiz(t, r, ok)
        \/ (ok /\ gen_final_quiz(t))
        \/ gen_complete(t, ok)
        \/ gen_failed(t, ok)

\* The steps of the generation threads when every repository call works.
GenerateLessonsSteps ==
    \E t \in TaskIds :
        \/ gen_start(t, TRUE)
        \/ gen_create_placeholder(t, TRUE)
        \/ gen_mark_generating(t, TRUE)
        \/ \E r \in AgentResponses : gen_lesson_content(t, r, TRUE)
        \/ \E r \in QuizResponses : gen_lesson_quiz(t, r, TRUE)
        \/ gen_final_quiz(t)
        \/ gen_complete(t, TRUE)
        \/ gen_failed(t, TRUE)

\* A request that only checks that the course exists.
retry_accepted_any_outline(c) == courses[c].exists

\* Whether the request gets past its checks (lines 379-389): the course exists and
\* its stored outline is a non-empty list.
retry_accepted(c) == courses[c].exists /\ courses[c].lesson_outline_plan # <<>>

\* retry_course_generation(course_id), lines 377-409: the checks, the delete, the
\* status update and the start of the thread. deleted / marked: the two repository
\* calls work.
retry_course_started(c, deleted, marked) ==
    /\ hist.ops < MaxOps
    /\ LET course == courses[c]
           faults == (IF deleted THEN 0 ELSE 1) + (IF marked THEN 0 ELSE 1)
       IN  IF ~ retry_accepted(c)
           THEN /\ deleted /\ marked
                /\ hist' = [hist EXCEPT !.ops = @ + 1]
                /\ UNCHANGED <<courses, lessons, tasks>>
           ELSE /\ hist.faults + faults <= MaxFaults
                /\ hist' = [hist EXCEPT !.ops = @ + 1,
                                        !.faults = @ + faults]
                /\ lessons' = IF deleted THEN lessons \ LessonsOf(lessons, c) ELSE lessons
                /\ courses' = IF marked THEN SetCourseGen(courses, c, "generating") ELSE courses
                /\ tasks' = Append(tasks, NewTask("service", c, course.lesson_outline_plan,
                                                  course.has_quizzes, TRUE))
    /\ UNCHANGED <<quizzes, regen, calls>>

\* The request made while no generation run is in progress.
retry_course_setup(c, deleted, marked) ==
    /\ Cardinality(Running) < MaxTasks
    /\ retry_course_started(c, deleted, marked)

\* The request made at any time: nothing in lines 377-409 looks for a run in progress.
retry_course_overlapping(c, deleted, marked) ==
    /\ Cardinality(Running) < MaxOverlap
    /\ retry_course_started(c, deleted, marked)
    /\ UNCHANGED apart

\* The request as far as the tables and threads go.
retry_course_generation(c, deleted, marked) ==
    /\ retry_course_setup(c, deleted, marked)
    /\ UNCHANGED apart

\* What a request hands back: None, or the course with its lessons.
NoneReturned == [course |-> FALSE, generation_status |-> None, lessons |-> {}]

NoReply == [req |-> 0, impl |-> None, course_id |-> None, pc |-> "idle",
            returned |-> NoneReturned]

\* get_course(course_id): the course row with its lesson rows, as stored now.
get_course(c) ==
    IF courses[c].exists
    THEN [course |-> TRUE, generation_status |-> courses[c].generation_status,
          lessons |-> { l.id : l \in LessonsOf(lessons, c) }]
    ELSE NoneReturned

\* The request with its reply: a rejected request returns None at once, an accepted
\* one still has line 414 to run once the thread is started.
retry_course_request(c, deleted, marked) ==
    /\ reply.pc # "reading"
    /\ retry_course_setup(c, deleted, marked)
    /\ reply' = [req |-> hist.ops + 1, impl |-> "service", course_id |-> c,
                 pc |-> IF retry_accepted(c) THEN "reading" ELSE "returned",
                 returned |-> NoneReturned]
    /\ UNCHANGED <<retry, agg, finals, planning, extraction, linkrow>>

\* Line 414: `return self.get_course(course_id)` (crud.py line 1439 likewise).
retry_course_return ==
    /\ reply.pc = "reading"
    /\ reply' = [reply EXCEPT !.pc = "returned", !.returned = get_course(reply.course_id)]
    /\ UNCHANGED <<courses, lessons, quizzes, tasks, regen, calls, hist, retry, agg,
                   finals, planning, extraction, linkrow>>

\* Plans a client sends with PATCH /courses/{id}: every item validated by pydantic.
UpdatePlans == { MakePlan("U", k) : k \in { kl \in KindLists : \A i \in DOMAIN kl : kl[i] = "plain" } }

RECURSIVE Placeholders(_, _, _, _)
\* The rows the update_course loops insert: one per item, ids from id upwards.
\* update_course leaves has_quiz to the column default.
Placeholders(plan, i, c, used) ==
    IF i > Len(plan) THEN {}
    ELSE {[lesson_placeholder_data(new_id(used), c, plan[i]) EXCEPT !.has_quiz = FALSE]}
         \cup Placeholders(plan, i + 1, c, used \cup {new_id(used)})

\* CourseService.update_course: update_data is built and never written; a new
\* outline replaces the lesson rows.
update_course(c, with_plan, plan) ==
    /\ Request
    /\ IF courses[c].exists /\ with_plan
       THEN /\ lessons' = (lessons \ LessonsOf(lessons, c)) \cup Placeholders(plan, 1, c, UsedIds)
       ELSE UNCHANGED lessons
    /\ UNCHANGED <<courses, quizzes, tasks, regen, calls, apart>>

(***************************************************************************)
(* crud.py                                                                 *)
(***************************************************************************)
\* The scalar update of crud.update_course (lines 630-659): a status in the request
\* is written to the user_facing_status column.
crud_scalar_update(row, status) ==
    IF status # None THEN [row EXCEPT !.user_facing_status = status] ELSE row

\* The subjects a request can carry: subject is any string, the empty one included.
Subjects == {"subject", ""}

\* crud.update_course(db, course_id, request): the fields set in the request are
\* written (status, subject), and a new outline replaces the stored one and the rows.
crud_update_course_fields(c, status, subject, with_plan, plan) ==
    /\ Request
    /\ status # None \/ subject # None \/ with_plan   \* an empty request raises at line 650
    /\ IF courses[c].exists
       THEN /\ courses' = [courses EXCEPT ![c] =
                   LET r == crud_scalar_update(@, status)
                       u == IF subject # None THEN [r EXCEPT !.subject = subject] ELSE r
                   IN  IF with_plan THEN [u EXCEPT !.lesson_outline_plan = plan] ELSE u]
            /\ IF with_plan
               THEN /\ lessons' = (lessons \ LessonsOf(lessons, c))
                                  \cup Placeholders(plan, 1, c, UsedIds)
                       ELSE UNCHANGED lessons
       ELSE UNCHANGED <<courses, lessons>>
    /\ UNCHANGED <<quizzes, tasks, regen, calls, apart>>

\* The same request without a subject.
crud_update_course(c, status, with_plan, plan) ==
    crud_update_course_fields(c, status, None, with_plan, plan)

\* crud.create_course_with_team lines 941-966: the planned course is saved as draft and
\* the lesson loop runs in the request. The plan has passed the per-item validation.
crud_create_course_from_plan(c, plan_data, saved) ==
    /\ ~ courses[c].exists
    /\ Cardinality(Running) < MaxTasks
    /\ hist.ops < MaxOps
    /\ IF plan_data = <<>>
       THEN /\ saved
            /\ hist' = [hist EXCEPT !.ops = @ + 1]
            /\ UNCHANGED <<courses, tasks>>
       ELSE IF ~ saved
       THEN /\ hist.faults < MaxFaults
            /\ hist' = [hist EXCEPT !.ops = @ + 1,
                                    !.faults = @ + 1]
            /\ UNCHANGED <<courses, tasks>>
       ELSE /\ hist' = [hist EXCEPT !.ops = @ + 1]
            /\ courses' = [courses EXCEPT ![c] = prepare_course_data(plan_data, FALSE)]
            /\ tasks' = Append(tasks, NewTask("crud_create", c, plan_data, FALSE, FALSE))
    /\ UNCHANGED <<lessons, quizzes, regen, calls>>

\* The request with the outcome of its planning given.
crud_create_course_with_team(c, plan_data, saved) ==
    /\ crud_create_course_from_plan(c, plan_data, saved)
    /\ UNCHANGED apart

\* The whole request up to the lesson loop: planning (lines 782-939), then the
\* course is saved (941-966). second is the answer the planner would give to the
\* simpler request.
crud_create_course_request(c, planner_response, retry_response, saved) ==
    LET planned == crud_generate_plan(planner_response, retry_response)
    IN  /\ crud_create_course_from_plan(c, OutlinePlanOf(planned.plan), saved)
        /\ planning' = [req |-> hist.ops + 1, impl |-> "crud",
                        first |-> planner_response,
                        second |-> IF planned.prompts = 2 THEN retry_response
                                   ELSE PlannerResponse("error", NoContent),
                        prompts |-> planned.prompts, plan |-> planned.plan,
                        returned |-> IF planned.plan # NoPlanData /\ saved
                                     THEN "course" ELSE None]
        /\ UNCHANGED <<retry, agg, finals, reply, extraction, linkrow>>

\* The lesson loop of crud.create_course_with_team (lines 990-1057) is written out
\* again in the background function of crud.retry_course_generation (lines 1342-1416).
CrudTaskAt(t, pc) == TaskAt(t, pc, "crud_create") \/ TaskAt(t, pc, "crud_retry")

\* The `except Exception as e_lesson` handler (lines 1050-1057): the lesson whose id
\* is in the function's locals is marked generation_failed.
crud_lesson_handler(ls, lesson_id) ==
    IF lesson_id # NoId THEN SetLessonGen(ls, lesson_id, "generation_failed") ELSE ls

\* Lines 998-1019. ok = FALSE: the insert raises.
crud_create_placeholder(t, ok) ==
    /\ CrudTaskAt(t, "item")
    /\ LET task == tasks[t] IN
       IF task.idx > Len(task.plan)
       THEN /\ ok
            /\ tasks' = [tasks EXCEPT ![t].pc = "complete"]
            /\ UNCHANGED lessons
       ELSE IF ok
       THEN /\ lessons' = lessons \cup
                    {[lesson_placeholder_data(new_id(UsedIds), task.course, task.plan[task.idx])
                         EXCEPT !.has_quiz = FALSE]}
            /\ tasks' = [tasks EXCEPT ![t].pc = "mark_generating", ![t].lesson_id = new_id(UsedIds)]
       ELSE /\ lessons' = crud_lesson_handler(lessons, task.lesson_id)
            /\ tasks' = [tasks EXCEPT ![t].idx = @ + 1]
    /\ Env(ok)
    /\ UNCHANGED <<courses, quizzes, regen, calls, apart>>

\* Lines 1012-1016: the insert answers without data; the error is printed and
\* `continue` moves the loop to the next outline item.
crud_placeholder_no_data(t) ==
    /\ CrudTaskAt(t, "item")
    /\ tasks[t].idx <= Len(tasks[t].plan)
    /\ tasks' = [tasks EXCEPT ![t].idx = @ + 1, ![t].skipped = @ \cup {tasks[t].idx}]
    /\ FaultStep
    /\ UNCHANGED <<courses, lessons, quizzes, regen, calls, apart>>

\* Line 1022. ok = FALSE: the update raises and the handler runs.
crud_mark_generating(t, ok) ==
    /\ CrudTaskAt(t, "mark_generating")
    /\ IF ok
       THEN /\ lessons' = SetLessonGen(lessons, tasks[t].lesson_id, "generating")
            /\ tasks' = [tasks EXCEPT ![t].pc = "agent"]
       ELSE /\ lessons' = crud_lesson_handler(lessons, tasks[t].lesson_id)
            /\ tasks' = [tasks EXCEPT ![t].pc = "item", ![t].idx = @ + 1]
    /\ Env(ok)
    /\ UNCHANGED <<courses, quizzes, regen, calls, apart>>

\* What agno's Agent.run does here: content, a response without content, or it raises.
CrudAgentResponses == {"content", "no_content", "raises"}

\* Lines 1032-1057. ok = FALSE: the update after the response raises.
crud_lesson_content(t, response, ok) ==
    /\ CrudTaskAt(t, "agent")
    /\ IF response = "raises" /\ ~ ok
       THEN \* the agent raises and the handler's own update raises as well
            IF tasks[t].impl = "crud_create"
            THEN \* crud.py line 1058 is not guarded: the exception leaves the function
                 /\ UNCHANGED lessons
                 /\ tasks' = [tasks EXCEPT ![t] = [Finished(@) EXCEPT !.escaped = TRUE]]
            ELSE \* crud.py lines 1410-1415: `except: pass`, then `continue`
                 /\ UNCHANGED lessons
                 /\ tasks' = [tasks EXCEPT ![t].pc = "item", ![t].idx = @ + 1,
                                        ![t].agent_failed = @ \cup {tasks[t].idx}]
       ELSE /\ lessons' = IF ok /\ response # "raises"
                          THEN save_response(lessons, tasks[t].lesson_id, response)
                          ELSE crud_lesson_handler(lessons, tasks[t].lesson_id)
            /\ tasks' = [tasks EXCEPT ![t].pc = "item", ![t].idx = @ + 1,
                                   ![t].agent_failed =
                                       IF response = "content" THEN @ ELSE @ \cup {tasks[t].idx}]
    /\ Env(ok)
    /\ UNCHANGED <<courses, quizzes, regen, calls, apart>>

\* Lines 1064-1066: the course is marked completed. ok = FALSE: the update raises,
\* out of the request in create_course_with_team and into the handler of the
\* background function (lines 1425-1436), which marks the course generation_failed.
crud_complete(t, ok) ==
    /\ CrudTaskAt(t, "complete")
    /\ courses' = IF ok THEN SetCourseGen(courses, tasks[t].course, "completed")
                  ELSE IF tasks[t].impl = "crud_retry"
                  THEN SetCourseGen(courses, tasks[t].course, "generation_failed")
                  ELSE courses
    /\ tasks' = [tasks EXCEPT ![t] = Finished(@)]
    /\ Env(ok)
    /\ UNCHANGED <<lessons, quizzes, regen, calls, apart>>

CrudCreateLessons ==
    \E t \in TaskIds, ok \in BOOLEAN :
        \/ crud_create_placeholder(t, ok)
        \/ (~ ok /\ crud_placeholder_no_data(t))
        \/ crud_mark_generating(t, ok)
        \/ \E r \in CrudAgentResponses : crud_lesson_content(t, r, ok)
        \/ crud_complete(t, ok)

\* crud.retry_course_generation(db, course_id), lines 1269-1461. deleted / marked:
\* the delete and the status update work; one that raises is caught at line 1448,
\* where the course is marked generation_failed and None is returned.
crud_retry_course_request(c, deleted, marked) ==
    /\ reply.pc # "reading"
    /\ Cardinality(Running) < MaxTasks
    /\ hist.ops < MaxOps
    /\ LET course == courses[c]
           started == retry_accepted(c) /\ deleted /\ marked
       IN  /\ IF ~ retry_accepted(c)
              THEN /\ deleted /\ marked
                   /\ hist' = [hist EXCEPT !.ops = @ + 1]
                   /\ UNCHANGED <<courses, lessons, tasks>>
              ELSE IF ~ deleted
              THEN /\ marked
                   /\ hist.faults < MaxFaults
                   /\ hist' = [hist EXCEPT !.ops = @ + 1, !.faults = @ + 1]
                   /\ courses' = SetCourseGen(courses, c, "generation_failed")
                   /\ UNCHANGED <<lessons, tasks>>
              ELSE IF ~ marked
              THEN /\ hist.faults < MaxFaults
                   /\ hist' = [hist EXCEPT !.ops = @ + 1, !.faults = @ + 1]
                   /\ lessons' = lessons \ LessonsOf(lessons, c)
                   /\ courses' = SetCourseGen(courses, c, "generation_failed")
                   /\ UNCHANGED tasks
              ELSE /\ hist' = [hist EXCEPT !.ops = @ + 1]
                   /\ lessons' = lessons \ LessonsOf(lessons, c)
                   /\ courses' = SetCourseGen(courses, c, "generating")
                   /\ tasks' = Append(tasks, NewTask("crud_retry", c, course.lesson_outline_plan,
                                                     FALSE, TRUE))
           /\ reply' = [req |-> hist.ops + 1, impl |-> "crud", course_id |-> c,
                        pc |-> IF started THEN "reading" ELSE "returned",
                        returned |-> NoneReturned]
    /\ UNCHANGED <<quizzes, regen, calls, retry, agg, finals, planning, extraction, linkrow>>

(***************************************************************************)
(* services/lesson_service.py: LessonService                               *)
(***************************************************************************)
FailedWith(ls, lid, msg) ==
    UpdateLesson(ls, lid, [generation_status |-> "generation_failed", content_md |-> msg])

\* Lines 128-141: the message stored when the agent gave no content. An error that
\* is_retryable_error accepts is reported as connection issues.
agent_failure_reason(response) ==
    IF response = "connection_error"
    THEN "Content generation failed. Connection issues prevented content generation after multiple retries"
    ELSE IF response = "other_error"
    THEN "Content generation failed. Agent error"
    ELSE "Content generation failed. Agent returned no content or an invalid response."

\* models.py lines 40-43: the values of CourseDifficulty.
CourseDifficulties == {"easy", "medium", "hard"}

\* Lines 37-69: the reason the request stops with while it resolves the course of the
\* lesson, or None when subject and difficulty were found. A lesson row without
\* course_id has course_id None; `not x` holds of None and of the empty string.
course_resolution_failure(lid) ==
    LET l == CHOOSE x \in lessons : x.id = lid
    IN  IF l.course_id = None
        THEN "Regeneration failed: Missing course association."
        ELSE IF ~ courses[l.course_id].exists
        THEN "Regeneration failed: Parent course not found."
        ELSE IF \/ courses[l.course_id].subject \in {None, ""}
                \/ courses[l.course_id].difficulty \in {None, ""}
        THEN "Regeneration failed: Course subject/difficulty missing."
        ELSE None

course_info_missing(lid) == course_resolution_failure(lid) # None

\* Lines 74-78: CourseDifficulty(course_difficulty_str).value, and MEDIUM when the
\* stored string is no value of the enum (ValueError).
course_difficulty_enum_val(course_difficulty_str) ==
    IF course_difficulty_str \in CourseDifficulties THEN course_difficulty_str ELSE "medium"

\* Lines 92-97: the subject and the difficulty the agent is asked with.
lesson_content_query(lid) ==
    LET l == CHOOSE x \in lessons : x.id = lid
    IN  [subject |-> courses[l.course_id].subject,
         difficulty |-> course_difficulty_enum_val(courses[l.course_id].difficulty)]

\* What a regenerate_lesson request needs to start, and what it costs.
RegenerateRequest(lid, ok) ==
    /\ HasLesson(lessons, lid)
    /\ \A r \in regen : r.lesson_id # lid
    /\ hist.ops < MaxOps
    /\ (IF ok THEN hist' = [hist EXCEPT !.ops = @ + 1]
        ELSE /\ hist.faults < MaxFaults
             /\ hist' = [hist EXCEPT !.ops = @ + 1,
                                     !.faults = @ + 1])

\* The update of line 80: generating, content and links cleared.
mark_regenerating(ls, lid) ==
    UpdateLesson(ls, lid,
        [generation_status |-> "generating", content_md |-> "Generating new content..."])

\* regenerate_lesson, lines 28-85: the lesson and its course are resolved; without
\* course information the lesson is marked generation_failed and the request ends,
\* otherwise the lesson is marked generating with its content cleared. ok = FALSE:
\* the repository swallows the failure of the update.
regenerate_lesson(lid, ok) ==
    /\ RegenerateRequest(lid, ok)
    /\ IF course_info_missing(lid)
       THEN /\ lessons' = IF ok
                          THEN FailedWith(lessons, lid, course_resolution_failure(lid))
                          ELSE lessons
            /\ UNCHANGED regen
       ELSE /\ lessons' = IF ok THEN mark_regenerating(lessons, lid) ELSE lessons
            /\ regen' = regen \cup {[lesson_id |-> lid, impl |-> "service", pc |-> "agent",
                                    query |-> lesson_content_query(lid)]}
    /\ UNCHANGED <<courses, quizzes, tasks, calls, apart>>

\* regenerate_lesson, lines 100-143: the agent answers. ok: the update that stores the
\* outcome works; when a content update returns nothing the lesson is marked failed
\* by a second update.
regenerate_lesson_content(r, response, ok) ==
    /\ r \in regen
    /\ r.impl = "service"
    /\ LET lid == r.lesson_id IN
       lessons' =
         IF response = "content"
         THEN IF ok THEN SaveContent(lessons, lid)
              ELSE FailedWith(lessons, lid, "Failed to save after regeneration.")
         ELSE IF ok THEN FailedWith(lessons, lid, agent_failure_reason(response))
              ELSE lessons
    /\ regen' = regen \ {r}
    /\ Env(ok)
    /\ UNCHANGED <<courses, quizzes, tasks, calls, apart>>

\* crud.regenerate_lesson, lines 1072-1138. ok = FALSE: the update raises and the
\* handler at line 1245 marks the lesson generation_failed.
crud_regenerate_lesson(lid, ok) ==
    /\ RegenerateRequest(lid, ok)
    /\ IF course_info_missing(lid)
       THEN /\ lessons' = IF ok
                          THEN FailedWith(lessons, lid, course_resolution_failure(lid))
                          ELSE FailedWith(lessons, lid, "Critical exception during regeneration")
            /\ UNCHANGED regen
       ELSE IF ok
       THEN /\ lessons' = mark_regenerating(lessons, lid)
            /\ regen' = regen \cup {[lesson_id |-> lid, impl |-> "crud", pc |-> "agent",
                                    query |-> lesson_content_query(lid)]}
       ELSE /\ lessons' = FailedWith(lessons, lid, "Critical exception during regeneration")
            /\ UNCHANGED regen
    /\ UNCHANGED <<courses, quizzes, tasks, calls, apart>>

\* crud.regenerate_lesson, lines 1179-1258: the agent answers or raises. ok = FALSE:
\* the update that stores the outcome raises and the handler takes over.
crud_regenerate_lesson_content(r, response, ok) ==
    /\ r \in regen
    /\ r.impl = "crud"
    /\ LET lid == r.lesson_id IN
       lessons' =
         IF response = "raises" \/ ~ ok
         THEN FailedWith(lessons, lid, "Critical exception during regeneration")
         ELSE IF response = "content" THEN SaveContent(lessons, lid)
         ELSE FailedWith(lessons, lid, "Content generation failed.")
    /\ regen' = regen \ {r}
    /\ Env(ok)
    /\ UNCHANGED <<courses, quizzes, tasks, calls, apart>>

\* update_lesson_user_status, lines 169-190: the lesson row is updated; when a row
\* came back the aggregation of its course starts.
update_lesson_user_status(lid, new_user_status, ok) ==
    /\ hist.ops < MaxOps
    /\ (IF ok THEN hist' = [hist EXCEPT !.ops = @ + 1]
        ELSE /\ hist.faults < MaxFaults
             /\ HasLesson(lessons, lid)
             /\ hist' = [hist EXCEPT !.ops = @ + 1,
                                     !.faults = @ + 1])
    /\ IF ok /\ HasLesson(lessons, lid)
       THEN LET l == CHOOSE x \in lessons : x.id = lid IN
            /\ lessons' = UpdateLesson(lessons, lid,
                              [user_facing_status |-> new_user_status])
            /\ calls' = calls \cup
                   {[lesson_id |-> lid, course_id |-> l.course_id, pc |-> "read",
                     same |-> (l.user_facing_status = new_user_status),
                     current |-> None, new |-> None]}
       ELSE UNCHANGED <<lessons, calls>>
    /\ UNCHANGED <<courses, quizzes, tasks, regen, apart>>

\* _check_and_update_course_completion_status, lines 202-232: the course and its
\* lessons are read, the new status is worked out, and the call either goes on to
\* the write-back or returns.
check_course_completion_read(call) ==
    /\ call \in calls
    /\ call.pc = "read"
    /\ LET course == courses[call.course_id]
           current == course.user_facing_status
           new == new_course_user_status_value(
                      current, StatusesOf(LessonsOf(lessons, call.course_id)))
       IN  calls' = IF course.exists /\ writes_course_user_status(new, current)
                    THEN (calls \ {call}) \cup
                         {[call EXCEPT !.pc = "update", !.current = current, !.new = new]}
                    ELSE calls \ {call}
    /\ UNCHANGED hist
    /\ UNCHANGED <<courses, lessons, quizzes, tasks, regen, apart>>

\* Line 235: course_repo.update(course_id, {"user_facing_status": new value}).
check_course_completion_write(call, ok) ==
    /\ call \in calls
    /\ call.pc = "update"
    /\ calls' = calls \ {call}
    /\ courses' = IF ok /\ courses[call.course_id].exists
                  THEN [courses EXCEPT ![call.course_id].user_facing_status = call.new]
                  ELSE courses
    /\ Env(ok)
    /\ UNCHANGED <<lessons, quizzes, tasks, regen, apart>>

(***************************************************************************)
(* Specifications                                                          *)
(***************************************************************************)
MainIdle ==
    /\ courses = [c \in CourseIds |-> NoCourse]
    /\ lessons = {}
    /\ quizzes = {}
    /\ tasks = <<>>
    /\ regen = {}
    /\ calls = {}
    /\ hist = [ops |-> 0, faults |-> 0]

MainFrame == UNCHANGED <<courses, lessons, quizzes, tasks, regen, calls, hist>>

Idle == MainIdle /\ retry = RetryIdle /\ agg = AggIdle /\ finals = {} /\ planning = NoPlanning
        /\ reply = NoReply

Init == Idle /\ extraction = NoExtraction /\ linkrow = NothingSaved

LessonIds == {l.id : l \in lessons}

Next ==
    \/ \E c \in CourseIds, hq \in BOOLEAN, plan \in PlannerPlans \cup {<<>>}, saved \in BOOLEAN :
           create_course_with_team(c, hq, plan, saved)
    \/ GenerateLessons
    \/ \E c \in CourseIds, deleted \in BOOLEAN, marked \in BOOLEAN :
           retry_course_generation(c, deleted, marked)
    \/ \E c \in CourseIds, with_plan \in BOOLEAN, plan \in UpdatePlans :
           update_course(c, with_plan, plan)
    \/ \E c \in CourseIds, status \in UserStatuses \cup {None}, with_plan \in BOOLEAN,
          plan \in UpdatePlans :
           crud_update_course(c, status, with_plan, plan)
    \/ \E c \in CourseIds, plan \in {p \in PlannerPlans : ValidPlan(p)} \cup {<<>>},
          saved \in BOOLEAN :
           crud_create_course_with_team(c, plan, saved)
    \/ CrudCreateLessons
    \/ \E lid \in LessonIds, ok \in BOOLEAN : regenerate_lesson(lid, ok)
    \/ \E r \in regen, response \in AgentResponses, ok \in BOOLEAN :
           regenerate_lesson_content(r, response, ok)
    \/ \E lid \in LessonIds, st \in UserStatuses, ok \in BOOLEAN :
           update_lesson_user_status(lid, st, ok)
    \/ \E call \in calls : check_course_completion_read(call)
    \/ \E call \in calls, ok \in BOOLEAN : check_course_completion_write(call, ok)

Spec == Init /\ [][Next]_vars

\* Creation, generation and retry only, with the generation threads scheduled fairly.
NextGen ==
    \/ \E c \in CourseIds, hq \in BOOLEAN, plan \in PlannerPlans \cup {<<>>}, saved \in BOOLEAN :
           create_course_with_team(c, hq, plan, saved)
    \/ GenerateLessons
    \/ \E c \in CourseIds, deleted \in BOOLEAN, marked \in BOOLEAN :
           retry_course_generation(c, deleted, marked)
    \/ \E c \in CourseIds, plan \in {p \in PlannerPlans : ValidPlan(p)} \cup {<<>>},
          saved \in BOOLEAN :
           crud_create_course_with_team(c, plan, saved)
    \/ CrudCreateLessons

SpecGen == Init /\ [][NextGen]_vars /\ WF_vars(GenerateLessons) /\ WF_vars(CrudCreateLessons)

\* Requests that arrive while a generation run is in progress; no repository call
\* fails.
NextOverlap ==
    \/ \E c \in CourseIds, hq \in BOOLEAN, plan \in PlannerPlans :
           create_course_with_team(c, hq, plan, TRUE)
    \/ GenerateLessonsSteps
    \/ \E c \in CourseIds : retry_course_overlapping(c, TRUE, TRUE)
    \/ \E lid \in LessonIds : regenerate_lesson(lid, TRUE)
    \/ \E r \in regen, response \in AgentResponses : regenerate_lesson_content(r, response, TRUE)

SpecOverlap == Init /\ [][NextOverlap]_vars

\* The retry wrapper alone.
InitRetry == Init
NextRetry == RetryNext /\ MainFrame /\ UNCHANGED <<agg, finals, planning, reply, extraction, linkrow>>
SpecRetry == InitRetry /\ [][NextRetry]_vars

\* The retry wrapper with the delay arguments a caller may pass.
NextDelay == DelayNext /\ MainFrame /\ UNCHANGED <<agg, finals, planning, reply, extraction, linkrow>>
SpecDelay == InitRetry /\ [][NextDelay]_vars

\* The aggregation alone.
InitAgg == Init
NextAgg == AggNext /\ MainFrame /\ UNCHANGED <<retry, finals, planning, reply, extraction, linkrow>>
SpecAgg == InitAgg /\ [][NextAgg]_vars

\* The learner's requests together with the requests that replace the lesson rows:
\* creation and its generation run, retry, update_course with a new outline, and
\* update_lesson_user_status with its aggregation.
NextProgress ==
    \/ \E c \in CourseIds, plan \in PlannerPlans :
           create_course_with_team(c, TRUE, plan, TRUE)
    \/ GenerateLessons
    \/ \E c \in CourseIds, deleted \in BOOLEAN, marked \in BOOLEAN :
           retry_course_generation(c, deleted, marked)
    \/ \E c \in CourseIds, plan \in UpdatePlans : update_course(c, TRUE, plan)
    \/ \E c \in CourseIds, plan \in UpdatePlans : crud_update_course(c, None, TRUE, plan)
    \/ \E lid \in LessonIds, st \in UserStatuses, ok \in BOOLEAN :
           update_lesson_user_status(lid, st, ok)
    \/ \E call \in calls : check_course_completion_read(call)
    \/ \E call \in calls, ok \in BOOLEAN : check_course_completion_write(call, ok)

SpecProgress == Init /\ [][NextProgress]_vars

\* Course-creation requests alone, from the planner's answer to the saved course.
NextPlan ==
    \/ \E c \in CourseIds, r \in PlannerResponses, saved \in BOOLEAN :
           create_course_request(c, r, saved)
    \/ \E c \in CourseIds, r \in PlannerResponses, second \in RetryResponses,
          saved \in BOOLEAN :
           crud_create_course_request(c, r, second, saved)

SpecPlan == Init /\ [][NextPlan]_vars

\* Plans a client may send to replace the outline: the lists above and the empty list.
OutlineUpdates == UpdatePlans \cup {<<>>}

\* Plan extraction on its own: an answer is given, and one of the two extractions
\* is applied to it.
InitExtract == Idle /\ extraction \in PlannerAnswers /\ linkrow = NothingSaved

NextExtract == parse_course_plan_call \/ crud_parse_call

SpecExtract == InitExtract /\ [][NextExtract]_vars

\* The save paths on their own: the lesson agent has answered, and one of the save
\* paths stores the answer.
InitLinks == Idle /\ extraction = NoExtraction /\ linkrow \in Answered

NextLinks ==
    \/ generate_lessons_save
    \/ regenerate_lesson_save
    \/ crud_generate_save
    \/ crud_regenerate_save
    \/ crud_retry_save

SpecLinks == InitLinks /\ [][NextLinks]_vars

\* Regeneration of single lessons, next to the generation of a course, a change of
\* its subject and the learner's progress.
NextRegen ==
    \/ \E c \in CourseIds, plan \in PlannerPlans : create_course_with_team(c, TRUE, plan, TRUE)
    \/ GenerateLessons
    \/ \E c \in CourseIds, subject \in Subjects :
           crud_update_course_fields(c, None, subject, FALSE, <<>>)
    \/ \E c \in CourseIds : retry_course_generation(c, TRUE, TRUE)
    \/ \E lid \in LessonIds, ok \in BOOLEAN : regenerate_lesson(lid, ok)
    \/ \E r \in regen, response \in AgentResponses, ok \in BOOLEAN :
           regenerate_lesson_content(r, response, ok)
    \/ \E lid \in LessonIds, ok \in BOOLEAN : crud_regenerate_lesson(lid, ok)
    \/ \E r \in regen, response \in CrudAgentResponses, ok \in BOOLEAN :
           crud_regenerate_lesson_content(r, response, ok)
    \/ \E lid \in LessonIds, st \in UserStatuses : update_lesson_user_status(lid, st, TRUE)
    \/ \E call \in calls : check_course_completion_read(call)
    \/ \E call \in calls : check_course_completion_write(call, TRUE)

SpecRegen == Init /\ [][NextRegen]_vars

\* Regeneration of a lesson whose stored rows are given: the text columns of the
\* course row hold any string or null, and the lesson row may lack its course.
StoredSubjects == {"subject", "", None}
StoredDifficulties == {"medium", "hard", "expert", "", None}

StoredCourses ==
    {NoCourse} \cup
    { [prepare_course_data(MakePlan("P", <<"plain">>), FALSE)
          EXCEPT !.generation_status = "completed", !.subject = s, !.difficulty = d] :
      s \in StoredSubjects, d \in StoredDifficulties }

InitResolve ==
    /\ courses \in [CourseIds -> StoredCourses]
    /\ \E c \in CourseIds \cup {None} :
           lessons = SaveContent({lesson_placeholder_data(1, c, MakePlan("P", <<"plain">>)[1])}, 1)
    /\ quizzes = {}
    /\ tasks = <<>>
    /\ regen = {}
    /\ calls = {}
    /\ hist = [ops |-> 0, faults |-> 0]
    /\ retry = RetryIdle /\ agg = AggIdle /\ finals = {} /\ planning = NoPlanning
    /\ reply = NoReply /\ extraction = NoExtraction /\ linkrow = NothingSaved

NextResolve ==
    \/ \E lid \in LessonIds, ok \in BOOLEAN : regenerate_lesson(lid, ok)
    \/ \E r \in regen, response \in AgentResponses, ok \in BOOLEAN :
           regenerate_lesson_content(r, response, ok)
    \/ \E lid \in LessonIds, ok \in BOOLEAN : crud_regenerate_lesson(lid, ok)
    \/ \E r \in regen, response \in CrudAgentResponses, ok \in BOOLEAN :
           crud_regenerate_lesson_content(r, response, ok)

SpecResolve == InitResolve /\ [][NextResolve]_vars

\* The learner's requests on a course whose generation has ended, each request for
\* another lesson than the requests still in progress.
NextStatus ==
    \/ \E c \in CourseIds, plan \in PlannerPlans : create_course_with_team(c, TRUE, plan, TRUE)
    \/ GenerateLessonsSteps
    \/ \E lid \in LessonIds, st \in UserStatuses :
           /\ Running = {}
           /\ \A k \in calls : k.lesson_id # lid
           /\ update_lesson_user_status(lid, st, TRUE)
    \/ \E call \in calls : check_course_completion_read(call)
    \/ \E call \in calls : check_course_completion_write(call, TRUE)

SpecStatus == Init /\ [][NextStatus]_vars

\* Retries of a course, with the requests that create it and replace its outline.
NextRetryCourse ==
    \/ \E c \in CourseIds, plan \in PlannerPlans : create_course_with_team(c, TRUE, plan, TRUE)
    \/ GenerateLessons
    \/ \E c \in CourseIds, plan \in OutlineUpdates : crud_update_course(c, None, TRUE, plan)
    \/ \E c \in CourseIds, deleted \in BOOLEAN, marked \in BOOLEAN :
           retry_course_request(c, deleted, marked)
    \/ \E c \in CourseIds, deleted \in BOOLEAN, marked \in BOOLEAN :
           crud_retry_course_request(c, deleted, marked)
    \/ retry_course_return
    \/ CrudCreateLessons

SpecRetryCourse == Init /\ [][NextRetryCourse]_vars

\* The quizzes table as it can be stored for a course that exists: no final quiz, an
\* active final quiz, a final quiz switched off by PUT /quizzes/{id}, or both.
StoredFinalQuiz(c, active) ==
    [course_id |-> c, lesson_id |-> NoId, is_final_quiz |-> TRUE, is_active |-> active]

StoredQuizTables == SUBSET { StoredFinalQuiz(c, a) : c \in CourseIds, a \in BOOLEAN }

\* A course stored with its outline and quizzes enabled, its generation over, and a
\* quizzes table with or without a final quiz for it.
InitStoredQuiz ==
    /\ \E plan \in PlannerPlans, st \in {"completed", "generation_failed"} :
           courses = [c \in CourseIds |->
                         [prepare_course_data(plan, TRUE) EXCEPT !.generation_status = st]]
    /\ lessons = {}
    /\ quizzes \in StoredQuizTables
    /\ tasks = <<>>
    /\ regen = {}
    /\ calls = {}
    /\ hist = [ops |-> 0, faults |-> 0]
    /\ retry = RetryIdle /\ agg = AggIdle /\ finals = {} /\ planning = NoPlanning
    /\ reply = NoReply /\ extraction = NoExtraction /\ linkrow = NothingSaved

\* Retries of the stored course, its generation runs, and direct requests for a
\* lesson's quiz and for the final quiz.
NextStoredQuiz ==
    \/ \E c \in CourseIds, deleted \in BOOLEAN, marked \in BOOLEAN :
           retry_course_generation(c, deleted, marked)
    \/ GenerateLessons
    \/ \E c \in CourseIds, lid \in QuizLessonIds, response \in QuizResponses, ok \in BOOLEAN :
           create_quiz_request(c, lid, response, ok)
    \/ \E c \in CourseIds : final_quiz_request(c)
    \/ \E f \in finals : final_quiz_create(f)

SpecStoredQuiz == InitStoredQuiz /\ [][NextStoredQuiz]_vars

\* Creation requests with and without quizzes, and the runs they start. The outlines
\* planned here ask for no lesson quiz.
NextCreate ==
    \/ \E c \in CourseIds, has_quizzes \in BOOLEAN, r \in PlannerResponses, saved \in BOOLEAN :
           create_course_call(c, has_quizzes, r, saved)
    \/ \E t \in TaskIds :
           \/ gen_start(t, TRUE)
           \/ gen_create_placeholder(t, TRUE)
           \/ gen_mark_generating(t, TRUE)
           \/ \E r \in AgentResponses : gen_lesson_content(t, r, TRUE)
           \/ gen_final_quiz(t)
           \/ gen_complete(t, TRUE)
           \/ gen_failed(t, TRUE)

SpecCreate == Init /\ [][NextCreate]_vars

\* Courses generated with quizzes, retried, and asked for their final quiz directly.
NextQuiz ==
    \/ \E c \in CourseIds, plan \in PlannerPlans : create_course_with_team(c, TRUE, plan, TRUE)
    \/ GenerateLessons
    \/ \E c \in CourseIds, deleted \in BOOLEAN, marked \in BOOLEAN :
           retry_course_generation(c, deleted, marked)
    \/ \E c \in CourseIds : final_quiz_request(c)
    \/ \E f \in finals : final_quiz_create(f)

SpecQuiz == Init /\ [][NextQuiz]_vars

(***************************************************************************)
(* Properties of the retry wrapper (checked under SpecRetry).              *)
(***************************************************************************)
IsError(outcome) == outcome # Returned

AllRetryable(outcomes) ==
    \A i \in 1 .. Len(outcomes) : IsError(outcomes[i]) /\ is_retryable_error(outcomes[i])

\* C5: for every max_retries >= 0 the caller passes, 0 included, when every call
\* raises a retryable exception the wrapper makes exactly max_retries + 1 calls,
\* sleeps exactly max_retries times and then propagates the exception.
C5_ExactlyMaxRetriesPlusOneCalls ==
    (retry.pc # "idle" /\ retry.arg >= 0 /\ AllRetryable(retry.outcomes))
        => /\ retry.calls <= retry.arg + 1
           /\ retry.calls = retry.arg + 1 =>
                 (retry.pc = "raised" /\ retry.sleeps = retry.arg)
           /\ retry.pc = "raised" => retry.calls = retry.arg + 1

\* C6: a call that raises an exception classified non-retryable is the last one: the
\* wrapper raises that exception at once, without sleeping after it; when it is the
\* first call the operation was invoked exactly once and nothing was slept.
C6_NonRetryableRaisedAtOnce ==
    \A i \in 1 .. Len(retry.outcomes) :
        (IsError(retry.outcomes[i]) /\ ~ is_retryable_error(retry.outcomes[i]))
            => /\ i = Len(retry.outcomes)
               /\ retry.calls = i
               /\ retry.sleeps = i - 1
               /\ retry.pc = "raised"
               /\ retry.raised = [msg |-> retry.outcomes[i].msg,
                                  typ |-> retry.outcomes[i].typ, call |-> i]

C6_Witness ==
    /\ retry.pc = "raised"
    /\ retry.arg = MaxRetriesArg
    /\ retry.calls = 1
    /\ retry.sleeps = 0
    /\ ~ is_retryable_error(retry.outcomes[1])

\* C7: when the wrapper gives up it raises the exception of the last call and returns
\* nothing; when a call returns, the wrapper returns the result of that call and
\* that call is the last one.
C7_RaisesLastReturnsFirstSuccess ==
    /\ Len(retry.outcomes) = retry.calls
    /\ \A i \in 1 .. (retry.calls - 1) : IsError(retry.outcomes[i])
    /\ retry.pc = "raised" =>
          /\ IsError(retry.outcomes[retry.calls])
          /\ retry.raised = [msg |-> retry.outcomes[retry.calls].msg,
                             typ |-> retry.outcomes[retry.calls].typ,
                             call |-> retry.calls]
          /\ retry.returned = NoResult
    /\ retry.pc = "returned" =>
          /\ retry.outcomes[retry.calls] = Returned
          /\ retry.returned = [call |-> retry.calls]
          /\ retry.raised = NoException
    /\ retry.pc \in {"idle", "call"} =>
          (retry.raised = NoException /\ retry.returned = NoResult)

C7_Witness ==
    /\ retry.pc = "raised"
    /\ retry.calls >= 2
    /\ retry.outcomes[1] # retry.outcomes[retry.calls]
    /\ retry.raised.call = retry.calls

(***************************************************************************)
(* Properties of the aggregation function (checked under SpecAgg).         *)
(***************************************************************************)
\* The status the description of the aggregation gives for a list of lesson statuses.
DerivedStatus(statuses) ==
    IF Len(statuses) = 0 THEN "not_started"
    ELSE IF \A i \in 1 .. Len(statuses) : statuses[i] = "completed" THEN "completed"
    ELSE IF \E i \in 1 .. Len(statuses) : statuses[i] \in {"in_progress", "completed"}
         THEN "in_progress"
    ELSE "not_started"

\* C8: the course user status the aggregation arrives at is not_started for an empty
\* lesson list whatever was stored, completed when every lesson is completed,
\* in_progress when some lesson is in_progress or completed but not all are
\* completed, and not_started when every lesson is not_started.
C8_AggregatedStatus ==
    agg.pc = "done" =>
        /\ agg.stored = DerivedStatus(agg.statuses)
        /\ agg.new # None => agg.new = DerivedStatus(agg.statuses)
        /\ (\A i \in 1 .. Len(agg.statuses) : agg.statuses[i] = "not_started")
              => agg.stored = "not_started"

C8_Witness ==
    /\ agg.pc = "done"
    /\ Len(agg.statuses) = MaxAggLessons
    /\ \E i \in 1 .. Len(agg.statuses) : agg.statuses[i] = "completed"
    /\ \E i \in 1 .. Len(agg.statuses) : agg.statuses[i] = "not_started"
    /\ agg.current = "completed"
    /\ agg.stored = "in_progress"

(***************************************************************************)
(* Properties of course generation.                                        *)
(***************************************************************************)
Unresolved == {"planned", "generating"}
Terminal == {"completed", "generation_failed"}

\* Exactly one generation run was ever started, by a creation, and no other request
\* was made.
SingleTask == Len(tasks) = 1 /\ hist.ops = 1 /\ regen = {} /\ calls = {}

\* C1: with a single generation run and no other request on the course, a course whose
\* generation_status is completed has no lesson in planned or generating.
C1_CompletedMeansAllResolved ==
    \A c \in CourseIds :
        (SingleTask /\ courses[c].generation_status = "completed")
            => \A l \in LessonsOf(lessons, c) : l.generation_status \notin Unresolved

\* The same statement over the behaviours in which every repository call worked.
C1_WhenEveryWriteWorks ==
    hist.faults = 0 => C1_CompletedMeansAllResolved

\* C2: a course or a lesson whose generation_status is generating eventually has
\* generation_status completed or generation_failed, whatever the agents answer and
\* whichever repository writes fail.
C2_NothingStaysGenerating ==
    /\ \A c \in CourseIds :
          (courses[c].generation_status = "generating")
              ~> (courses[c].generation_status \in Terminal)
    /\ \A id \in 1 .. MaxOutline :
          (\E l \in lessons : l.id = id /\ l.generation_status = "generating")
              ~> (\A l \in lessons : l.id = id => l.generation_status \in Terminal)

\* The step is part of a retry of course c: the request itself, or the first step of
\* the run it started.
RetryStep(c) ==
    \/ \E deleted \in BOOLEAN, marked \in BOOLEAN : retry_course_generation(c, deleted, marked)
    \/ \E t \in DOMAIN tasks :
          tasks[t].by_retry /\ tasks[t].course = c /\ tasks[t].pc = "start"

\* C3: every change of a course's generation_status is draft -> generating,
\* generating -> completed, generating -> generation_failed or, as a step of a retry,
\* anything -> generating.
C3_OnlyLifecycleTransitions ==
    [][ \A c \in CourseIds :
          LET old == courses[c].generation_status
              new == courses'[c].generation_status
          IN  (courses[c].exists /\ new # old)
                 => \/ <<old, new>> \in { <<"draft", "generating">>,
                                          <<"generating", "completed">>,
                                          <<"generating", "generation_failed">> }
                    \/ (new = "generating" /\ RetryStep(c)) ]_vars

\* The rows of course c made for item i of plan.
RowsOfItem(c, plan, i) ==
    { l \in LessonsOf(lessons, c) :
         l.order_in_course = plan[i].order /\ l.title = plan[i].planned_title }

\* C4: when the single generation run of a course with a valid outline finishes and
\* the repository worked throughout, there is exactly one lesson row per outline item
\* with that item's order and title, the lessons whose content agent call failed are
\* generation_failed, all others are completed, and the course is completed.
C4_FailuresIsolatedPerLesson ==
    \A t \in DOMAIN tasks :
        LET task == tasks[t]
            c == task.course
        IN  (SingleTask /\ hist.faults = 0 /\ task.pc = "done" /\ ValidPlan(task.plan))
               => /\ courses[c].generation_status = "completed"
                  /\ Cardinality(LessonsOf(lessons, c)) = Len(task.plan)
                  /\ \A i \in 1 .. Len(task.plan) :
                        /\ Cardinality(RowsOfItem(c, task.plan, i)) = 1
                        /\ \A l \in RowsOfItem(c, task.plan, i) :
                              l.generation_status =
                                 IF i \in task.agent_failed THEN "generation_failed"
                                 ELSE "completed"

\* A finished run over the longest outline in which one agent call failed and one worked.
C4_Witness ==
    /\ SingleTask
    /\ hist.faults = 0
    /\ tasks[1].pc = "done"
    /\ Len(tasks[1].plan) = MaxOutline
    /\ ValidPlan(tasks[1].plan)
    /\ tasks[1].agent_failed = {1}
    /\ \E l \in lessons : l.generation_status = "generation_failed"
    /\ \E l \in lessons : l.generation_status = "completed"

AggregationWrite == \E call \in calls, ok \in BOOLEAN : check_course_completion_write(call, ok)

UserStatusChanged(c) ==
    courses[c].exists /\ courses'[c].user_facing_status # courses[c].user_facing_status

Quiescent(c) ==
    /\ \A t \in Running : tasks[t].course # c
    /\ \A call \in calls : call.course_id # c
    /\ \A r \in regen : \A l \in LessonsOf(lessons, c) : l.id # r.lesson_id

\* C11: whenever no operation on a course is in progress, and every repository call
\* so far has worked, a course without lesson rows has user status not_started, and
\* a course with user status completed has at least one lesson and all its lessons
\* have user status completed.
C11_CourseProgressMatchesLessons ==
    \A c \in CourseIds :
        (courses[c].exists /\ Quiescent(c) /\ hist.faults = 0)
           => /\ LessonsOf(lessons, c) = {}
                    => courses[c].user_facing_status = "not_started"
              /\ courses[c].user_facing_status = "completed"
                    => /\ LessonsOf(lessons, c) # {}
                       /\ \A l \in LessonsOf(lessons, c) : l.user_facing_status = "completed"

ParsedAnswer(pl) ==
    IF pl.impl = "service"
    THEN IF pl.first.kind = "content" THEN json_loads(pl.first.content) ELSE NoPlanData
    ELSE IF pl.prompts = 2 THEN crud_retry_parse(pl.second)
    ELSE IF pl.first.kind = "content" THEN crud_first_parse(pl.first.content)
    ELSE NoPlanData

\* No object was obtained, a required key is missing, or the outline is not a
\* non-empty list.
FailsValidation(obj) ==
    \/ obj \in {NoPlanData, JSONDecodeError, NonObject}
    \/ ~ HasMember(obj, "T")
    \/ ~ HasMember(obj, "D")
    \/ OutlineOf(obj) \in {"absent", "N", "E"}

\* A creation request was made in this step.
CreationRequested == planning'.req # planning.req

\* C13: a creation request whose planning fails (error or no content from the
\* planner, no JSON object in the answer, a required key missing, the outline not a
\* non-empty list) returns None and creates no course row, no lesson row and no
\* generation task.
C13_FailedPlanningCreatesNothing ==
    [][ (CreationRequested /\ FailsValidation(ParsedAnswer(planning')))
           => /\ planning'.returned = None
              /\ UNCHANGED <<courses, lessons, tasks>> ]_vars

(***************************************************************************)
(* Properties of retry_course (checked under SpecRetryCourse).             *)
(***************************************************************************)
\* A retry request for course c was made in this step.
RetryRequested(c) == reply'.req # reply.req /\ reply'.course_id = c

\* C14: a retry request for a course that does not exist, or whose stored outline
\* is absent or empty, returns None at once and changes nothing: no lesson row is
\* deleted, the course row is as before and no thread is started.
C14_RejectedRetryChangesNothing ==
    [][ \A c \in CourseIds :
          (RetryRequested(c) /\ (~ courses[c].exists \/ courses[c].lesson_outline_plan = <<>>))
             => /\ reply'.pc = "returned"
                /\ reply'.returned = NoneReturned
                /\ UNCHANGED <<courses, lessons, tasks>> ]_vars

\* A retry was rejected for a course that exists with lessons and an empty outline.
C14_Witness ==
    \E c \in CourseIds :
        /\ reply.course_id = c
        /\ reply.pc = "returned"
        /\ reply.returned = NoneReturned
        /\ courses[c].exists
        /\ courses[c].lesson_outline_plan = <<>>
        /\ courses[c].generation_status = "completed"

\* A retry's thread is about to make a lesson-content agent call.
RetryAtAgentCall(t) == tasks[t].by_retry /\ tasks[t].pc = "agent"

\* C15: when a retry of a course with an N-item outline makes a lesson-content agent
\* call, the N placeholder rows of the course all exist already (every database
\* call having worked and every item being valid).
C15_AllPlaceholdersBeforeFirstAgentCall ==
    \A t \in DOMAIN tasks :
        (RetryAtAgentCall(t) /\ hist.faults = 0 /\ ValidPlan(tasks[t].plan))
           => Cardinality(LessonsOf(lessons, tasks[t].course)) = Len(tasks[t].plan)

\* C16: the course a retry request returns, when it returns one, has
\* generation_status generating and no lesson rows (every database call having
\* worked).
C16_RetryReturnsLessonlessGeneratingCourse ==
    (reply.pc = "returned" /\ reply.returned.course /\ hist.faults = 0)
       => /\ reply.returned.generation_status = "generating"
          /\ reply.returned.lessons = {}

(***************************************************************************)
(* Properties of lesson generation and regeneration (checked under         *)
(* SpecRegen).                                                             *)
(***************************************************************************)
\* A regenerate_lesson request for lesson lid starts in this step.
RegenerateStep(lid) ==
    \E ok \in BOOLEAN : regenerate_lesson(lid, ok) \/ crud_regenerate_lesson(lid, ok)

\* C17: with no generation run in progress and every database call working, every
\* change of a lesson's generation_status is planned -> generating, generating ->
\* completed, generating -> generation_failed or, as the first step of a
\* regenerate_lesson request, anything -> generating; and no lesson becomes
\* needs_review.
C17_LessonStatusFollowsLifecycle ==
    [][ (Running = {} /\ hist'.faults = 0) =>
          \A l \in lessons : \A m \in lessons' :
             (m.id = l.id /\ m.generation_status # l.generation_status)
                => /\ m.generation_status # "needs_review"
                   /\ \/ <<l.generation_status, m.generation_status>> \in
                            { <<"planned", "generating">>,
                              <<"generating", "completed">>,
                              <<"generating", "generation_failed">> }
                      \/ (m.generation_status = "generating" /\ RegenerateStep(l.id)) ]_vars

\* What a regeneration of lesson lid leaves alone in this step: the courses, the
\* set of lesson rows, every other lesson, and the lesson's own id, course, order,
\* title and user status.
RegenerateFrame(lid) ==
    /\ courses' = courses
    /\ Cardinality(lessons') = Cardinality(lessons)
    /\ \A l \in lessons : \E m \in lessons' :
          /\ m.id = l.id
          /\ m.course_id = l.course_id
          /\ m.order_in_course = l.order_in_course
          /\ m.title = l.title
          /\ m.user_facing_status = l.user_facing_status
          /\ (l.id # lid => m = l)

\* C18: every step of regenerate_lesson, in either implementation, on every outcome
\* of the agent and of the database calls, overwrites the lesson in place: its id,
\* course, order, title and user status stay, no lesson row is created or deleted,
\* and no other lesson and no course row changes.
C18_RegenerateOverwritesInPlace ==
    [][ /\ \A lid \in LessonIds, ok \in BOOLEAN :
              (regenerate_lesson(lid, ok) \/ crud_regenerate_lesson(lid, ok))
                 => RegenerateFrame(lid)
        /\ \A r \in regen, ok \in BOOLEAN :
              \/ \E response \in AgentResponses : regenerate_lesson_content(r, response, ok)
              \/ \E response \in CrudAgentResponses : crud_regenerate_lesson_content(r, response, ok)
              => RegenerateFrame(r.lesson_id) ]_vars

\* A lesson the learner has completed is being regenerated, next to a generated
\* lesson of the same course.
C18_Witness ==
    \E l \in lessons, k \in lessons :
        /\ l.id # k.id
        /\ l.course_id = k.course_id
        /\ l.content_md = "Generating new content..."
        /\ l.user_facing_status = "completed"
        /\ k.generation_status = "completed"
        /\ k.content_md = "content"

(***************************************************************************)
(* Properties of planning (checked under SpecPlan).                        *)
(***************************************************************************)
\* What the first answer of a creation request parsed to.
FirstParsed(pl) ==
    IF pl.first.kind # "content" THEN NoPlanData
    ELSE IF pl.impl = "service" THEN json_loads(pl.first.content)
    ELSE crud_first_parse(pl.first.content)

IsObject(parsed) == Len(parsed) >= 2 /\ parsed[1] = "{"

\* C19: in a creation request the planner is prompted at most twice, and when its
\* first answer parses to an object that fails validation (courseTitle,
\* courseDescription or lesson_outline_plan missing, or the outline not a non-empty
\* list) it is prompted exactly twice.
C19_OneSimplifiedReprompt ==
    planning.req # 0 =>
        /\ planning.prompts <= 2
        /\ (IsObject(FirstParsed(planning)) /\ FailsValidation(FirstParsed(planning)))
              => planning.prompts = 2

(***************************************************************************)
(* Properties of plan extraction (checked under SpecExtract).              *)
(***************************************************************************)
\* An answer has been handed to plan extraction.
Extracted == extraction.impl # None

\* The object the answer carries, parsed directly.
CarriedValue == json_loads(extraction.object)

HasToken(s, toks) == \E i \in 1 .. Len(s) : s[i] \in toks

\* A fence tagged json opens somewhere in s.
HasJsonOpener(s) == \E i \in 1 .. (Len(s) - 1) : s[i] = "F" /\ s[i + 1] = "j"

\* C20 as claimed: whatever stands around it, an object carried in a json fence, in
\* a generic fence, as the whole text or inside prose is what extraction returns.
C20_ExtractionReturnsCarriedObject ==
    Extracted => extraction.result = CarriedValue

\* The answers for which the carried object is the one the priority order selects:
\* it is in the first fence tagged json; or in the first fence of an answer without a
\* fence tagged json; or it is the whole trimmed text; or it stands in prose that
\* has no fence and no brace.
CarriedObjectSelected ==
    LET x == extraction
    IN  CASE x.carrier = "json_fence" -> ~ HasJsonOpener(x.before)
          [] x.carrier = "generic_fence" ->
                 ~ HasToken(x.before, {"F"}) /\ ~ HasJsonOpener(x.after)
          [] x.carrier = "whole" ->
                 ~ HasToken(x.before \o x.after, {"F", "{", "}", "t", "C"})
          [] x.carrier = "prose" -> ~ HasToken(x.before \o x.after, {"F", "{", "}"})
          [] OTHER -> FALSE

\* C20: extraction returns the carried object when it is in the first json-tagged
\* fence (other fenced blocks and braces around it notwithstanding), else in the
\* first generic fence (braces notwithstanding), else the whole trimmed text, else
\* in prose that has no fence and no brace of its own.
C20_ExtractionReturnsSelectedObject ==
    (Extracted /\ CarriedObjectSelected) => extraction.result = CarriedValue

\* An object in a json fence was returned although a generic fenced block stands
\* before it and prose with braces after it.
C20_Witness ==
    /\ Extracted
    /\ extraction.carrier = "json_fence"
    /\ HasToken(extraction.before, {"F"})
    /\ HasToken(extraction.after, {"{"})
    /\ CarriedObjectSelected
    /\ extraction.result = <<"{", "T", "D", "L", "}">>

(***************************************************************************)
(* Properties of the stored links (checked under SpecLinks).               *)
(***************************************************************************)
\* The URLs of the Markdown links of an answer, in order, duplicates kept.
RECURSIVE LinkUrls(_)
LinkUrls(answer) ==
    IF answer = <<>> THEN <<>>
    ELSE (IF Head(answer).kind = "link" THEN <<Head(answer).url>> ELSE <<>>)
             \o LinkUrls(Tail(answer))

\* C21: after every successful content generation the external links stored with
\* the lesson are exactly the URLs of the Markdown links of the generated content,
\* in order of occurrence, with duplicates kept.
C21_StoredLinksAreContentLinks ==
    linkrow.by # None => linkrow.external_links = LinkUrls(linkrow.answer)

(***************************************************************************)
(* Properties of the delays (checked under SpecDelay).                     *)
(***************************************************************************)
\* The caller passed a positive base_delay and max_delay and a backoff_factor >= 1.
DelayArgsPassed ==
    /\ retry.base_delay > 0
    /\ retry.backoff_factor >= 1
    /\ retry.max_delay > 0

SumSlept(delays) == LET S[i \in 0 .. Len(delays)] == IF i = 0 THEN 0 ELSE S[i - 1] + delays[i].slept
                    IN  S[Len(delays)]

\* C22: for the base_delay, backoff_factor >= 1 and max_delay a caller passes, every
\* delay slept before a retry is non-negative and at most max_delay, the delay before
\* jitter does not decrease from one attempt to the next, and the total slept in one
\* retry_api_call is at most max_retries * max_delay.
C22_DelaysWithinMaxDelay ==
    DelayArgsPassed =>
        /\ \A i \in 1 .. Len(retry.delays) :
              /\ retry.delays[i].slept >= 0
              /\ retry.delays[i].slept <= TicksPerSecond * retry.max_delay
              /\ i > 1 => retry.delays[i - 1].capped <= retry.delays[i].capped
        /\ SumSlept(retry.delays) <= TicksPerSecond * retry.max_retries * retry.max_delay

(***************************************************************************)
(* Properties of overlapping requests (checked under SpecOverlap).         *)
(***************************************************************************)
\* Agent calls in flight for course c: generation runs waiting for the lesson agent
\* or for the quiz agent, and regenerate requests waiting for the lesson agent.
AgentCallsInFlight(c) ==
    Cardinality({ t \in Running : tasks[t].course = c /\ tasks[t].pc \in {"agent", "lesson_quiz"} })
    + Cardinality({ r \in regen : \E l \in LessonsOf(lessons, c) : l.id = r.lesson_id })

GeneratingLessons(c) == { l \in LessonsOf(lessons, c) : l.generation_status = "generating" }

\* C23: at any time at most one agent call is in flight per course and at most one
\* lesson of a course is in generating, also when retry_course or regenerate_lesson
\* is invoked while a generation run of the course is in progress.
C23_OneAgentCallPerCourse ==
    \A c \in CourseIds :
        /\ AgentCallsInFlight(c) <= 1
        /\ Cardinality(GeneratingLessons(c)) <= 1

\* The newest generation run of course c, when there is one.
TasksOf(c) == { t \in DOMAIN tasks : tasks[t].course = c }

NewestTask(c) == CHOOSE t \in TasksOf(c) : \A u \in TasksOf(c) : u <= t

\* The run has been through every item of its outline.
AttemptedEveryItem(t) == tasks[t].pc = "done" \/ tasks[t].idx > Len(tasks[t].plan)

\* C24: when retry_course is invoked while an earlier run of the course is in
\* progress, the course is not completed before the newest run has attempted every
\* outline item, and no reader sees the course completed while one of its lessons
\* is planned or generating (regenerate requests aside).
C24_CompletedOnlyAfterNewestRun ==
    \A c \in CourseIds :
        (courses[c].generation_status = "completed" /\ regen = {} /\ TasksOf(c) # {})
            => /\ AttemptedEveryItem(NewestTask(c))
               /\ \A l \in LessonsOf(lessons, c) :
                     l.generation_status \notin {"planned", "generating"}

\* C25: in every reachable state no two lesson rows of a course share an order
\* index and the course has at most as many lesson rows as its outline has items,
\* also when retry_course is invoked while an earlier run is creating lessons.
C25_OneRowPerOutlineItem ==
    \A c \in CourseIds :
        /\ \A l, m \in LessonsOf(lessons, c) :
              l.order_in_course = m.order_in_course => l = m
        /\ Cardinality(LessonsOf(lessons, c)) <= Len(courses[c].lesson_outline_plan)

(***************************************************************************)
(* Properties of the final-quiz step (checked under SpecGen).              *)
(***************************************************************************)
\* C26: the final-quiz step of a generation run starts only when has_quizzes is
\* true and every outline item has been attempted, it ends before the course is
\* marked completed and leads to that step, it is not entered again once left, and
\* the step that follows marks the course completed whether or not a final quiz
\* exists; a run with has_quizzes false never enters it.
C26_FinalQuizStepAfterItemsBeforeCompleted ==
    [][ \A t \in DOMAIN tasks :
          LET a == tasks[t]
              b == tasks'[t]
          IN  a.impl = "service" =>
              /\ (a.pc # "final_quiz" /\ b.pc = "final_quiz")
                    => (a.has_quizzes /\ a.pc = "item" /\ a.idx > Len(a.plan))
              /\ (a.pc = "final_quiz" /\ b.pc # "final_quiz")
                    => (b.pc = "complete" /\ courses' = courses)
              /\ a.pc \in {"complete", "failed", "done"} => b.pc # "final_quiz"
              /\ (a.pc = "item" /\ b.pc = "complete") => ~ a.has_quizzes
              /\ (a.pc = "complete" /\ b.pc = "done" /\ hist' = hist /\ courses[a.course].exists)
                    => courses'[a.course].generation_status = "completed"
              /\ (courses'[a.course].generation_status = "completed"
                  /\ courses[a.course].generation_status # "completed"
                  /\ b # a)
                    => a.pc = "complete" ]_vars

\* A run with has_quizzes has finished and its course is completed without a final
\* quiz.
C26_Witness ==
    \E t \in DOMAIN tasks :
        /\ tasks[t].impl = "service"
        /\ tasks[t].has_quizzes
        /\ tasks[t].pc = "done"
        /\ courses[tasks[t].course].generation_status = "completed"
        /\ get_final_quiz_by_course_id(quizzes, tasks[t].course) = {}

(***************************************************************************)
(* Properties of a run that an exception ends (checked under SpecGen).     *)
(***************************************************************************)
\* C27: when an exception leaves the per-lesson handling of the generation loop,
\* the run ends there: the course becomes generation_failed (unless the write of
\* that status itself fails), it is not marked completed, no final quiz is
\* generated and the lessons already completed keep their content and status.
C27_EscapedExceptionFailsCourse ==
    [][ \A t \in DOMAIN tasks :
          LET a == tasks[t]
              b == tasks'[t]
          IN  (b.escaped /\ b.pc = "done" /\ a.pc # "done"
               /\ (a.pc = "failed" => hist' = hist))
                  => /\ courses'[a.course].generation_status = "generation_failed"
                     /\ quizzes' = quizzes
                     /\ \A l \in lessons : l.generation_status = "completed" => l \in lessons' ]_vars

(***************************************************************************)
(* Properties of failed lessons (checked under SpecRegen).                 *)
(***************************************************************************)
\* What content_md holds when no failure reason is stored in it.
NoReason == {None, "content", "Generating new content..."}

\* C28: whenever the answer of the lesson-content agent turns a generating lesson
\* into generation_failed, in the generation loop as well as in regenerate_lesson,
\* a failure reason is stored with the lesson in the same step.
C28_FailureReasonStored ==
    [][ hist' = hist =>
          \A k \in lessons' :
              (k.generation_status = "generation_failed"
               /\ \E l \in lessons : l.id = k.id /\ l.generation_status = "generating")
                  => k.content_md \notin NoReason ]_vars

(***************************************************************************)
(* Properties of the lesson quiz step (checked under SpecRegen).           *)
(***************************************************************************)
LessonRow(ls, id) == CHOOSE l \in ls : l.id = id

StoredCompleted(ls, id) == HasLesson(ls, id) /\ LessonRow(ls, id).generation_status = "completed"

\* C29: in the generation loop the quiz of a lesson is attempted exactly when the
\* outline item has has_quiz and its content was stored, right after the lesson is
\* stored and before the next placeholder is created; and a regenerate_lesson
\* request (made while no generation run is in progress) that stored content for a
\* lesson with has_quiz attempts the quiz before it ends.
C29_QuizChainedAfterContent ==
    [][ /\ \A t \in DOMAIN tasks :
              LET a == tasks[t]
                  b == tasks'[t]
              IN  a.impl = "service" =>
                  /\ (a.pc # "lesson_quiz" /\ b.pc = "lesson_quiz")
                        => /\ a.pc = "agent"
                           /\ a.plan[a.idx].has_quiz
                           /\ hist' = hist => StoredCompleted(lessons', a.lesson_id)
                  /\ (a.pc = "agent" /\ b.pc # "agent" /\ a.plan[a.idx].has_quiz
                      /\ ~ StoredCompleted(lessons, a.lesson_id)
                      /\ StoredCompleted(lessons', a.lesson_id))
                        => b.pc = "lesson_quiz"
                  /\ (a.pc = "lesson_quiz" /\ b.pc # "lesson_quiz")
                        => /\ b.pc = "item" /\ b.idx = a.idx + 1
                           /\ {l.id : l \in lessons'} = {l.id : l \in lessons}
        /\ \A r \in regen \ regen' :
              (/\ Running = {}
               /\ StoredCompleted(lessons', r.lesson_id)
               /\ LessonRow(lessons', r.lesson_id).has_quiz)
                  => r.pc = "quiz" ]_vars

(***************************************************************************)
(* Properties of a failed quiz step (checked under SpecGen).               *)
(***************************************************************************)
\* C30: a quiz step of the generation loop that creates no quiz, for a lesson or
\* for the course, whether the result is missing or an exception is raised, leaves
\* every lesson row as it is and the run goes on: to the next outline item after a
\* lesson quiz, to the completion of the course after the final quiz.
C30_QuizFailureLeavesLessons ==
    [][ \A t \in DOMAIN tasks :
          LET a == tasks[t]
              b == tasks'[t]
          IN  (a.impl = "service" /\ quizzes' = quizzes) =>
              /\ (a.pc = "lesson_quiz" /\ b.pc # "lesson_quiz")
                    => /\ lessons' = lessons
                       /\ b.pc = "item" /\ b.idx = a.idx + 1 /\ ~ b.escaped
              /\ (a.pc = "final_quiz" /\ b.pc # "final_quiz")
                    => /\ lessons' = lessons
                       /\ b.pc = "complete" /\ ~ b.escaped ]_vars

\* A run whose first lesson has has_quiz stored that lesson, got no quiz for it and
\* went on to store the second lesson.
C30_Witness ==
    /\ hist.faults = 0
    /\ \E t \in DOMAIN tasks :
          /\ tasks[t].impl = "service"
          /\ Len(tasks[t].plan) = 2
          /\ tasks[t].plan[1].has_quiz
          /\ \E l, m \in LessonsOf(lessons, tasks[t].course) :
                /\ l.order_in_course = 0 /\ l.generation_status = "completed"
                /\ l.content_md = "content"
                /\ ActiveQuizOfLesson(quizzes, l.id) = {}
                /\ m.order_in_course = 1 /\ m.generation_status = "completed"

(***************************************************************************)
(* Properties of regenerate_lesson's course resolution (SpecResolve).      *)
(***************************************************************************)
\* The lesson row of a request.
RowOf(lid) == CHOOSE x \in lessons : x.id = lid

\* The course of the lesson is stored with a subject and a difficulty of the enum.
CourseResolved(lid) ==
    /\ RowOf(lid).course_id # None
    /\ courses[RowOf(lid).course_id].exists
    /\ courses[RowOf(lid).course_id].subject \notin {None, ""}
    /\ courses[RowOf(lid).course_id].difficulty \in CourseDifficulties

C32_FailedInsertSkipsItemOnly ==
    /\ [][ \A t \in DOMAIN tasks :
              LET a == tasks[t]
                  b == tasks'[t]
              IN  /\ b.skipped # a.skipped =>
                        /\ a.pc = "item" /\ a.idx <= Len(a.plan)
                        /\ b = [a EXCEPT !.idx = a.idx + 1, !.skipped = a.skipped \cup {a.idx}]
                        /\ lessons' = lessons /\ courses' = courses /\ quizzes' = quizzes
                  /\ b.pc = "agent" => b.idx \notin b.skipped
                  /\ (b.idx # a.idx /\ b.pc # "done") => b.idx = a.idx + 1 ]_vars
    /\ \A t \in TaskIds :
          (t \in DOMAIN tasks /\ tasks[t].skipped # {} /\ ValidPlan(tasks[t].plan))
            ~> (/\ t \in DOMAIN tasks
                /\ tasks[t].pc = "done"
                /\ \/ courses[tasks[t].course].generation_status = "completed"
                   \/ hist.faults > Cardinality(tasks[t].skipped))

\* A run over two outline items has ended: the insert for the first item gave no
\* row, the second item has its lesson, and the course is completed.
C32_Witness ==
    \E t \in DOMAIN tasks :
        /\ tasks[t].pc = "done"
        /\ tasks[t].skipped = {1}
        /\ Len(tasks[t].plan) = 2
        /\ hist.faults = 1
        /\ courses[tasks[t].course].generation_status = "completed"
        /\ {l.order_in_course : l \in LessonsOf(lessons, tasks[t].course)} = {1}

(***************************************************************************)
(* Properties of update_course with a new outline (SpecProgress).          *)
(***************************************************************************)
\* The step is an update_course request on the stored course c that carries the
\* outline P, by either implementation.
OutlineUpdated(c, P) ==
    /\ courses[c].exists
    /\ \/ update_course(c, TRUE, P)
       \/ \E status \in UserStatuses \cup {None} : crud_update_course(c, status, TRUE, P)

\* The rows of course c are one untouched placeholder per item of P.
PlaceholdersOf(ls, c, P) ==
    /\ Cardinality(LessonsOf(ls, c)) = Len(P)
    /\ \A i \in 1 .. Len(P) :
          \E l \in LessonsOf(ls, c) :
              /\ l.title = P[i].planned_title
              /\ l.order_in_course = P[i].order
              /\ l.generation_status = "planned"
              /\ l.user_facing_status = "not_started"
              /\ l.content_md = None

\* C33: after update_course with a new outline plan P the stored
\* lesson_outline_plan of the course equals P and the lesson rows of the course are
\* exactly one placeholder per item of P, every earlier row being gone.
C33_UpdateStoresOutlineAndPlaceholders ==
    [][ \A c \in CourseIds, P \in UpdatePlans :
          OutlineUpdated(c, P) =>
              /\ courses'[c].lesson_outline_plan = P
              /\ PlaceholdersOf(lessons', c, P)
              /\ LessonsOf(lessons', c) \cap LessonsOf(lessons, c) = {} ]_vars

(***************************************************************************)
(* Properties of planning after an answer that does not parse (SpecPlan).  *)
(***************************************************************************)
\* The planner answered the first prompt with content from which no JSON value
\* was obtained.
FirstUnparsable(pl) ==
    /\ pl.first.kind = "content"
    /\ IF pl.impl = "service"
       THEN json_loads(pl.first.content) = JSONDecodeError
       ELSE crud_first_parse(pl.first.content) = NoPlanData

\* C34: when the planner's first answer cannot be parsed as JSON, the planner is
\* prompted a second time with the simpler request, and the request reports
\* failure only if the answer to that prompt yields no plan either.
C34_UnparsableAnswerReprompted ==
    (planning.req # 0 /\ FirstUnparsable(planning)) =>
        /\ planning.prompts = 2
        /\ planning.plan = NoPlanData =>
              \/ crud_retry_parse(planning.second) = NoPlanData
              \/ crud_validate_outline(crud_retry_parse(planning.second)) = NoPlanData

(***************************************************************************)
(* Properties of the agents' run (SpecRetry).                              *)
(***************************************************************************)
\* A lesson row as the loop holds it when the agent is called.
AwaitingContent ==
    SetLessonGen({lesson_placeholder_data(1, "c1", MakePlan("P", <<"plain">>)[1])},
                 1, "generating")

\* C35: whatever the model call did (it returned, it failed with retryable errors
\* until the attempts were used up, it failed with an error that is not retried),
\* run returns: the response of the call, or an error object whose content is None
\* and whose error is the message; and the callers take an error object and a
\* response with empty content for a failed step: the lesson is marked
\* generation_failed without content, and planning gives no plan.
C35_RunReturnsAndFailuresAreFailedSteps ==
    retry.pc \in {"returned", "raised"} =>
        \A content \in ModelContents :
            LET resp == run_agent_with_retry(retry, content)
                kind == response_kind(resp)
            IN  /\ resp.outcome = "returns"
                /\ retry.pc = "returned" => (resp.content = content /\ resp.error = None)
                /\ retry.pc = "raised" =>
                      (resp.content = None /\ resp.error = retry.last_exception.msg
                       /\ resp.error \notin {None, ""})
                /\ kind \in AgentResponses
                /\ (kind = "content") <=> (retry.pc = "returned" /\ content = "content")
                /\ kind # "content" =>
                      /\ save_response(AwaitingContent, 1, kind)
                            = SetLessonGen(AwaitingContent, 1, "generation_failed")
                      /\ generate_course_plan(planner_response_of(resp, FullObject)) = NoPlanData
                /\ kind = "content" =>
                      generate_course_plan(planner_response_of(resp, FullObject)) # NoPlanData

\* The model call failed with retryable errors until the attempts were used up, and
\* the error object of the last failure is read as a connection failure.
C35_Witness ==
    /\ retry.pc = "raised"
    /\ retry.calls = retry.max_retries + 1
    /\ retry.calls >= 2
    /\ response_kind(run_agent_with_retry(retry, None)) = "connection_error"

(***************************************************************************)
(* Properties of the per-lesson failure handling (SpecGen).                *)
(***************************************************************************)
\* The row l belongs to the outline item the run t is working on.
RowOfCurrentItem(t, l) ==
    /\ tasks[t].pc # "done"
    /\ tasks[t].idx <= Len(tasks[t].plan)
    /\ l.course_id = tasks[t].course
    /\ l.order_in_course = tasks[t].plan[tasks[t].idx].order

\* C36: a step of the per-lesson loop changes the generation_status of no lesson
\* row but the row of the outline item it is working on; in particular a failure on
\* item k, the raising insert of its placeholder included, leaves the rows of the
\* earlier items as they are.
C36_FailureMarksOwnLessonOnly ==
    [][ \A l \in lessons, m \in lessons' :
          (l.id = m.id /\ l.generation_status # m.generation_status)
              => \E t \in DOMAIN tasks : RowOfCurrentItem(t, l) ]_vars

(***************************************************************************)
(* Properties of concurrent progress updates (SpecStatus).                 *)
(***************************************************************************)
\* C37: once the update_lesson_user_status calls on the lessons of a generated
\* course have all returned, calls that ran at the same time on different lessons
\* included, the stored user status of the course is the one derived from the user
\* statuses of its lessons.
C37_ConcurrentUpdatesAgree ==
    \A c \in CourseIds :
        (courses[c].exists /\ Running = {} /\ calls = {} /\ LessonsOf(lessons, c) # {})
            => courses[c].user_facing_status
                   = DerivedStatus(StatusesOf(LessonsOf(lessons, c)))

(***************************************************************************)
(* Properties of quiz creation (checked under SpecStoredQuiz).             *)
(***************************************************************************)
\* The step is a call of create_quiz_for_lesson for lesson lid: a direct request, or
\* the quiz step of a generation run.
LessonQuizCall(lid) ==
    \/ \E c \in CourseIds, response \in QuizResponses, ok \in BOOLEAN :
           create_quiz_request(c, lid, response, ok)
    \/ \E t \in DOMAIN tasks, response \in QuizResponses, ok \in BOOLEAN :
           /\ tasks[t].lesson_id = lid
           /\ gen_lesson_quiz(t, response, ok)

\* The step is a call of create_final_quiz_for_course for course c reaching its check.
FinalQuizCall(c) ==
    \/ final_quiz_request(c)
    \/ \E t \in DOMAIN tasks : tasks[t].course = c /\ gen_final_quiz(t)

====
